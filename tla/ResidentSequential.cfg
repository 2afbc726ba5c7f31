\* One worker: no two requests overlap.
CONSTANTS
    Users = {alice, bob}
    NoUser = NoUser
    Sids = {s1, s2}
    NoSid = NoSid
    Ledgers = {l1}
    NoLedger = NoLedger
    Threads = {t1}
    MaxResident = 2
SPECIFICATION Spec
INVARIANTS
    NoOrphanAtRest
CHECK_DEADLOCK FALSE
