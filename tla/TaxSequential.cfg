\* One worker, two sessions that compete for one slot, with and without
\* failing transactions.
CONSTANTS
    Users = {alice}
    Sids = {s1, s2}
    NoSid = NoSid
    Docs = {d1, d2}
    NoDoc = NoDoc
    Edits = {e1}
    NoEdit = NoEdit
    Dicts = {x1, x2, x3}
    NoDict = NoDict
    Threads = {t1}
    MaxSessions = 1
    MaxVersion = 2
    Ops = {"parse", "summary", "recalculate", "itr", "delete", "purge", "logout", "clear"}
    DatabaseMayFail = {TRUE, FALSE}
SPECIFICATION Spec
SYMMETRY Symmetric
INVARIANTS
    TypeOK
    MemoIsCurrent
    StoreBounded
    RowsFollowMemory
CHECK_DEADLOCK FALSE
