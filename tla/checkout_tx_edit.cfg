SPECIFICATION Spec
CONSTANTS
    ama = ama
    kofi = kofi
    latte = latte
    k1 = k1
    c1 = c1
    c2 = c2
    e1 = e1
    e2 = e2
    NoKey = NoKey
    Users <- MCOneUser
    Items <- MCItems
    MaxQuantity = 2
    Subtotal <- MCSubtotal
    RedeemRequests <- MCRequests
    Keys <- MCKeys
    OpeningPoints <- MCOpeningPoints
    Checkouts <- MCCheckouts
    Edits <- MCEdits
PROPERTIES
    ClearsWhatItBought
