SPECIFICATION TxSpec
CONSTANTS
    ama = ama
    guest = guest
    latte = latte
    m1 = m1
    m2 = m2
    k1 = k1
    NoKey = NoKey
    NoUser = NoUser
    Users <- MCUsers
    Guests <- MCGuests
    OrderIds <- MCOrderIds
    Items <- MCItems
    MaxQuantity = 1
    Subtotal <- MCSubtotal
    DeliveryFee <- MCDeliveryFee
    RedeemRequests <- MCRequests
    Keys <- MCKeys
    OpeningPoints <- MCOpeningPoints
    Movers <- MCMovers
SYMMETRY MCSymmetry
CONSTRAINT CartsMatter
INVARIANTS
    TxTypeOK
    LedgerMatchesLifecycle
    TotalCoversDelivery
    HistoryIsLegalPath
    PaidOnceBeforeHandling
PROPERTIES
    TransitionsAreAtomic
    KeepsPromise
