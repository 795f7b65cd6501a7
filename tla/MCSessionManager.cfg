CONSTANTS
    Users = {u1, u2, u3, u4}
    Sockets = {s1, s2, s3, s4}
    NoUser = NoUser
    NoSocket = NoSocket
    MaxSessions = 3
SYMMETRY Symmetry
SPECIFICATION Spec
INVARIANTS
    TypeOK
    UsersDistinct
PROPERTIES
    ImplementsPresence
