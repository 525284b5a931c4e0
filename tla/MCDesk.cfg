\* Everybody may stop: nothing refreshes by itself once the pages are closed.
CONSTANTS
    Prices = {1, 2}
    MaxOrders = 2
    MaxSends = 2
    MaxClicks = 3
SPECIFICATION Spec
INVARIANTS TypeOK OrdersMatchPayments TimelineFollowsStatus
PROPERTY KeepsPromise
CHECK_DEADLOCK FALSE
