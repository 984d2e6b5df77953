SPECIFICATION Spec
CONSTANTS
    c1 = c1
    c2 = c2
    d1 = d1
    bea = bea
    dan = dan
    Callers = {c1, c2, d1}
    Keys = {bea, dan}
    KeyOf <- MCKeyOf
    Buckets = {1, 2, 3}
    NoBucket = NoBucket
    Cap = 1
    Per = 2
    MaxLag = 1
    Watched = bea
    MaxWindow = 1
INVARIANT WindowBound
PROPERTIES BudgetSpec KeepsAdmitting
CHECK_DEADLOCK FALSE
