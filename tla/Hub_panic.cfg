SPECIFICATION Spec
CONSTANTS
    s1 = s1
    s2 = s2
    s3 = s3
    alice = alice
    bob = bob
    Sessions = {s1, s2, s3}
    Users = {alice, bob}
    Rooms = {general}
    UserOf <- MCUserOf
    ChCap = 1
    MaxPublished = 1
INVARIANT SendNeverPanics
CHECK_DEADLOCK FALSE
