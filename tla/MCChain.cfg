\* The chain may stop for good, and synchronisations end.
CONSTANTS
    Wallets = {w1, w2}
    w1 = w1
    w2 = w2
    Syncers = {startup, admin}
    startup = startup
    admin = admin
    Batch = 2
    MaxBlocks = 4
    MaxPosts = 2
SPECIFICATION Spec
INVARIANTS TypeOK ProjectionIsReplay CursorNeverSkips StatusTellsProjection
PROPERTIES KeepsPromise
SYMMETRY Symmetry
CHECK_DEADLOCK FALSE
