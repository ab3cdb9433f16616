CONSTANTS
    t1 = t1
    t2 = t2
    ala = ala
    ola = ola
    Tabs = {t1, t2}
    First = t1
    Accounts = {ala, ola}
    NoOne = NoOne
    Role <- MCRole
    MaxCalls = 3
    Budgets <- MCBudgets
SPECIFICATION FairSpec
CHECK_DEADLOCK FALSE
INVARIANTS
    SessionTypeOK
    ActsAsShown
    HeldIsAccepted
    SavedIsShown
PROPERTIES
    LosesOnlyADeadSession
    Settles
    LogoutEnds
