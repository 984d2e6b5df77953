SPECIFICATION FairSpec
CONSTANTS
    o1 = o1
    b1 = b1
    b2 = b2
    owen = owen
    bea = bea
    Sessions = {o1, b1}
    Users = {owen, bea}
    Rooms = {club}
    UserOf <- MCUserOfTwo
    OwnerOf <- MCOwnerOf
    Private = {}
    Admins = {bea}
    InboxCap = 2
    MaxCommands = 2
    NoRoom = NoRoom
PROPERTY RemovalReachesView
CHECK_DEADLOCK FALSE
