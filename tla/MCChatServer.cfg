CONSTANTS
    Users = {u1, u2, u3}
    Members = {u1, u2, u3}
    Sockets = {s1, s2, s3}
    NoUser = NoUser
    NoSocket = NoSocket
    MaxSessions = 3
    MaxMessages = 1
    MaxLogins = 4
    MaxConnections = 3
SYMMETRY Symmetry
SPECIFICATION Spec
CHECK_DEADLOCK FALSE
INVARIANTS
    ReplyTellsTheTruth
    AttributionNeedsRemovalOrSwitch
    MisdeliveryNeedsReuseOrSwitch
    SteadyReceiversReached
