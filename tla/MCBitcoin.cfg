CONSTANTS
    g = g
    a1 = a1
    a2 = a2
    a3 = a3
    b1 = b1
    b2 = b2
    b3 = b3
    b4 = b4
    c2 = c2
    c3 = c3
    d2 = d2
    d3 = d3
    e3 = e3
    e4 = e4
    x1 = x1
    y4 = y4
    Blocks = {g, a1, a2, a3, b1, b2, b3, b4, c2, c3, d2, d3, e3, e4, x1, y4}
    Solved = {g, a1, a2, a3, b1, b2, b3, b4, c2, c3, d2, d3, e3, e4, y4}
    Hashes = 16
    difficulty_interval = 2
    target_timespan = 4
    pow_limit = 7
    NoBlock = NoBlock
    Genesis = g
    prev <- MCprev
    compact_target <- MCtarget
    timestamp <- MCtimestamp
    transactions <- MCtransactions
    MaxAmount = 3
    StartHeight = 0
    EndHeight = 2
    MaxInFlight = 2
    Tips = {a2, a3, b2, b3, c2, c3, d2}
    MaxFaults = 2
CHECK_DEADLOCK FALSE
SPECIFICATION Spec
INVARIANT StateOfChain
INVARIANT TargetsFollowEpochs
INVARIANT RefusedBlockUndone
INVARIANT CheckpointCovered
INVARIANT UnchangedTipIsExact
PROPERTY Finishes
