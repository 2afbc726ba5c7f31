\* Two workers, one account and the anonymous caller, two sessions that
\* compete for one resident slot, two uploads of one ledger.
CONSTANTS
    Users = {alice}
    NoUser = NoUser
    Sids = {s1, s2}
    NoSid = NoSid
    Ledgers = {l1}
    NoLedger = NoLedger
    Threads = {t1, t2}
    MaxResident = 1
SPECIFICATION Spec
SYMMETRY Symmetric
INVARIANTS
    TypeOK
    ResidentBounded
    ResidentFaithful
    CreatedIdIsRegistered
    OwnedUploadsDedup
    ServedToOwner
PROPERTIES
    GoneForGood
CHECK_DEADLOCK FALSE
