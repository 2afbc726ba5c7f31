CONSTANTS
    Users = {alice, bob}
    NoUser = NoUser
    MaxCalls = 2
    OtherTabs = TRUE
    MaxMail = 1
    MaxEvents = 3
SPECIFICATION Spec
INVARIANTS
    TypeOK
    StoreOfOneAccount
PROPERTIES
    PanKept
    OnePanel
CHECK_DEADLOCK FALSE
