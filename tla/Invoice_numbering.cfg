CONSTANTS
    Reservation = {r1, r2, r3}
    LastMonth = 2
    Nobody = Nobody
SPECIFICATION FairSpec
CHECK_DEADLOCK FALSE
INVARIANTS
    NumberingTypeOK
    NumbersInFlightDistinct
    MonthsGapFree
PROPERTIES
    ActsAsDispenser
    TransactionsEnd
