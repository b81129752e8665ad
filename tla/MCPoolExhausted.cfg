CONSTANTS
    c1 = c1
    c2 = c2
    c3 = c3
    k1 = k1
    None = None
    Calls <- ThreeCalls
    Closers <- OneCloser
    MinConn = 1
    MaxConn = 2
SPECIFICATION Spec
INVARIANTS
    ExhaustionIsAConnectionError
