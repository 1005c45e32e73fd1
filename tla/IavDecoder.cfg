SPECIFICATION Spec
CONSTANTS
    a = a
    b = b
    c = c
    d = d
    e = e
    V1 = {a, b}
    V2 = {c, d, e}
    DecId <- MCDecId
    NumDecoders = 3
    DriverMax = 5
    BsbSize = 11
    MaxStarts <- MCStarts
    NoOne = NoOne
INVARIANTS HeldContextIsUp RegionsDisjoint
CHECK_DEADLOCK FALSE
