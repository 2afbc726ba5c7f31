\* A computation that overlaps an eviction and an edit.
CONSTANTS
    Users = {alice}
    Sids = {s1}
    NoSid = NoSid
    Docs = {d1}
    NoDoc = NoDoc
    Edits = {e1}
    NoEdit = NoEdit
    Dicts = {x1, x2, x3, x4}
    NoDict = NoDict
    Threads = {t1, t2}
    MaxSessions = 1
    MaxVersion = 1
    Ops = {"parse", "summary", "recalculate", "logout"}
    DatabaseMayFail = {FALSE}
SPECIFICATION Spec
INVARIANTS
    MemoIsCurrent
CHECK_DEADLOCK FALSE
