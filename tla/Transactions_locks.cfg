CONSTANTS
    Process = {p1, p2}
    Reservation = {r1, r2}
    Client = {c1}
    c1 = c1
    ClientOf <- MCClientOf
    ClientFirst <- MCClientFirst
    Nobody = Nobody
SYMMETRY Ids
SPECIFICATION Spec
INVARIANTS
    TransactionsTypeOK
    EntitledOnce
    CirclesOnOneReservationHaveAWebhook
PROPERTIES
    LeavesWithItsMoney
    TransactionsKeepSlotContract
