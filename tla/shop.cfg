SPECIFICATION Spec
CONSTANTS
    v1 = v1
    r1 = r1
    r2 = r2
    Variants <- MCVariants
    Requests <- MCRequests
    MaxQuantity = 2
    MayFail = TRUE
INVARIANTS
    ShopTypeOK
    CartOnScreenIsCurrent
    PayableAgain
    WaitsForLiveScript
SYMMETRY MCSymmetry
