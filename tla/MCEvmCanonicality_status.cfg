CONSTANTS
    g = g
    h = h
    a1 = a1
    a2 = a2
    a3 = a3
    b1 = b1
    b2 = b2
    c2 = c2
    Blocks = {g, h, a1, a2, a3, b1, b2, c2}
    NoBlock = NoBlock
    number <- MCnumber
    parent <- MCparent
    MaxSegment = 3
    MaxTime = 3
CHECK_DEADLOCK FALSE
SPECIFICATION Spec
INVARIANT FinalizedRevisionStays
