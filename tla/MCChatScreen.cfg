CONSTANTS
    Users = {1, 2}
    Groups = {1}
    Members = {1}
    Me = 9
    MaxContacts = 2
    MaxShown = 2
    Stores <- OneMessage
    MaxSent = 2
    MaxActions = 2
SPECIFICATION Spec
CHECK_DEADLOCK FALSE
INVARIANTS
    OverrunByOne
    ContactsWhole
    ShownBelong
    ShownOnce
