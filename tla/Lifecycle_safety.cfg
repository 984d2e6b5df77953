SPECIFICATION Spec
CONSTANTS
    c1 = c1
    c2 = c2
    c3 = c3
    k1 = k1
    k2 = k2
    Conns = {c1, c2, c3}
    Keys = {k1, k2}
    KeyOf <- MCKeyOf
    Users = {ann, bob}
    NoUser = NoUser
    MaxSessions = 2
    MiddlewareQuits = TRUE
INVARIANTS CounterExact WithinCapacity SessionOwnsKey GivenBackTogether LossIsNoticed
SYMMETRY MCSymmetry
CHECK_DEADLOCK FALSE
