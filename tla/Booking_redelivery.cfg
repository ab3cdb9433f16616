CONSTANTS
    Hour = 1
    Day = 8
    FreeCancel = 1
    TTL = 1
    MaxTime = 3
    g1 = g1
    Garden = {g1}
    NoGarden = NoGarden
    Reservation = {r1, r2}
    Offer <- MCOffer
    Request <- MCOneWindow
SPECIFICATION Spec
PROPERTY
    RedeliveryChangesNothing
