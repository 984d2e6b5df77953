SPECIFICATION MCSpec
CONSTANTS
    a1 = a1
    b1 = b1
    b2 = b2
    ann = ann
    bob = bob
    Sessions = {a1, b1, b2}
    Users = {ann, bob}
    UserOf <- MCUserOf
    Admins = {ann}
    Nobody = Nobody
    InboxCap = 1
    MaxSends = 2
    MaxCommands = 3
INVARIANTS BlockRespected NotificationsFit ThreadComplete UnreadCounted
PROPERTY ReadByOpening
CHECK_DEADLOCK FALSE
