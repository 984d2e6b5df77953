SPECIFICATION Spec
CONSTANTS
    a1 = a1
    a2 = a2
    b1 = b1
    ann = ann
    bob = bob
    Sessions = {a1, a2, b1}
    Users = {ann, bob}
    UserOf <- MCUserOf
    Names = {lobby, den, attic}
    den = den
    attic = attic
    DefaultRoom = lobby
    NoName = NoName
    Topics = {"", "new"}
    Blank = ""
    Unlisted = Unlisted
    Limit = 1
    Day = 1
    InboxCap = 1
    MaxSessions = 2
    MaxNow = 1
    MaxCommands = 3
INVARIANTS CreationBound CreatorOpens DeletedRoomsFade TopicKnown
SYMMETRY MCSymmetry
CHECK_DEADLOCK FALSE
