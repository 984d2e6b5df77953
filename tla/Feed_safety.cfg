SPECIFICATION Spec
CONSTANTS
    o1 = o1
    b1 = b1
    owen = owen
    bea = bea
    Sessions = {o1, b1}
    Users = {owen, bea}
    UserOf <- MCUserOf
    Moderators = {owen}
    InboxCap = 2
    HistoryLimit = 2
    OldMessages <- MCOldMessages
    MaxCommands = 2
INVARIANTS NothingVanishes FirstShownInOrder ReadWhenShown BumpedOnce TombstoneShown
CHECK_DEADLOCK FALSE
