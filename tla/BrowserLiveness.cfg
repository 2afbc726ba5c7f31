CONSTANTS
    Users = {alice}
    NoUser = NoUser
    MaxCalls = 2
    OtherTabs = FALSE
    MaxMail = 1
    MaxEvents = 3
SPECIFICATION Spec
PROPERTIES
    SignedOutHeals
    LoadingEnds
CHECK_DEADLOCK FALSE
