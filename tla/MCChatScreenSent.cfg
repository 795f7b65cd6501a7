CONSTANTS
    Users = {1}
    Groups = {1}
    Members = {}
    Me = 9
    MaxContacts = 1
    MaxShown = 1
    Stores <- OneOrNone
    MaxSent = 2
    MaxActions = 4
SPECIFICATION Spec
CHECK_DEADLOCK FALSE
INVARIANTS
    SentToShownChat
