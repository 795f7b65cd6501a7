CONSTANTS
    Usernames = {u1, u2}
    Sockets = {s1, s2}
    Clients = {c1, c2}
    Passwords = {p1, p2}
    NoUser = NoUser
    NoSocket = NoSocket
    MaxSessions = 3
    MaxRequests = 3
    MaxPushes = 1
    MaxStarts = 2
SYMMETRY Symmetry
SPECIFICATION LoginSpec
CHECK_DEADLOCK FALSE
INVARIANTS
    IdentityNeedsLostAnswer
    ChatNeedsCredentials
