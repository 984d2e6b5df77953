SPECIFICATION Spec
CONSTANTS
    o1 = o1
    b1 = b1
    b2 = b2
    owen = owen
    bea = bea
    Sessions = {o1, b1, b2}
    Users = {owen, bea}
    Rooms = {club}
    UserOf <- MCUserOf
    OwnerOf <- MCOwnerOf
    Private = {club}
    Admins = {}
    InboxCap = 2
    MaxCommands = 2
    NoRoom = NoRoom
INVARIANTS SendByUnbannedMember PrivateByInvitation KickReachesSubscribed JoinedStaysSubscribed
PROPERTY OwnershipNeverPassed
CHECK_DEADLOCK FALSE
