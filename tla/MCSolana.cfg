CONSTANTS
    r = r
    a = a
    b = b
    c = c
    p = p
    q = q
    Forks = {r, a, b, c}
    NoFork = NoFork
    NoWrite = NoWrite
    slot <- MCslot
    Claims <- MCClaims
    Reports <- MCReports
    Pubkeys = {p, q}
    Writes <- MCWrites
    Executions <- MCExecutions
    Sources = {x, y}
    Sessions = {s1, s2, s3}
    Slots = {1, 2}
    Blockhashes = {h1, h2}
    NoHash = NoHash
    MaxSequence = 4
CHECK_DEADLOCK FALSE
SPECIFICATION Spec
INVARIANT ProjectionIsReplay
INVARIANT DeadForksExcluded
INVARIANT GapsAreLosses
INVARIANT DisagreementReported
