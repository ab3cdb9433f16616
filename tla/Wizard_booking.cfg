CONSTANTS
    rex = rex
    azor = azor
    Dates <- MCDates
    OpenFrom = 8
    OpenTo = 11
    MinHours = 2
    MaxDogs = 2
    Rates = {4005, 5000}
    Dogs = {rex, azor}
    Vaccinated = {rex}
    NoDog = NoDog
    NoDate = NoDate
    Zones <- MCZones
    Budgets <- MCBudgets
SPECIFICATION FairSpec
CHECK_DEADLOCK FALSE
INVARIANTS
    WizardTypeOK
    PickedRangeIsFree
    ConfirmedIsReserved
PROPERTIES
    ConfirmedReachesSuccess
