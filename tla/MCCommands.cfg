CONSTANTS
    u1 = u1
    u2 = u2
    Users <- MCUsers
    Messages <- MCMessages
    Sockets = {s1, s2}
    NoUser = NoUser
    NoSocket = NoSocket
    MaxSessions = 2
    MaxCommands = 3
SYMMETRY Symmetry
SPECIFICATION Spec
CHECK_DEADLOCK FALSE
INVARIANTS
    TypeOK
    ServedAsSent
    OutsideNeedsOverlap
PROPERTIES
    ImplementsSessions
