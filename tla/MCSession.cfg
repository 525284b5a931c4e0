SPECIFICATION Spec
CONSTANTS
    Wallets = {w1, w2}
    None = None
    Unlinked = Unlinked
    MaxClicks = 3
    MaxLate = 1
    Credits = 2
INVARIANTS TypeOK PagesAreGated WalletsAreUnique
PROPERTY RedirectsEnd
CHECK_DEADLOCK FALSE
