\* The member may do nothing more, and nothing has to happen then.
CHECK_DEADLOCK FALSE
CONSTANTS
    Txs = {t1, t2}
    t1 = t1
    t2 = t2
    Rounds <- Copies
    MaxPolls = 1
SPECIFICATION Spec
INVARIANTS TypeOK InsideHasPaid
PROPERTIES TrackerCatchesUp
