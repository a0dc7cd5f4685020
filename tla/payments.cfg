SPECIFICATION FairSpec
CONSTANTS
    ama = ama
    latte = latte
    w1 = w1
    w2 = w2
    NoKey = NoKey
    NoUser = NoUser
    Users <- MCUsers
    Guests = {}
    OrderIds <- MCOneOrder
    Items <- MCItems
    MaxQuantity = 1
    Subtotal <- MCSubtotal
    DeliveryFee = 30
    RedeemRequests <- MCRequests
    Keys = {}
    OpeningPoints <- MCOpeningPoints
    Deliveries <- MCTwoDeliveries
    StoreMayFail = TRUE
    MaxRestarts = 1
INVARIANTS
    HandlersTypeOK
    PaidMeansCharged
    ChargeIsFindable
    AcknowledgedIsSettled
    OkIsAnnounced
    SystemCancelsUnpayable
PROPERTIES
    ActsThroughStore
    ExactChargeSettles
