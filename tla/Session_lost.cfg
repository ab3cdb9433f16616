CONSTANTS
    t1 = t1
    t2 = t2
    ala = ala
    ola = ola
    Tabs = {t1, t2}
    First = t1
    Accounts = {ala, ola}
    NoOne = NoOne
    Role <- MCRole
    MaxCalls = 3
    Budgets <- MCRefused
SPECIFICATION Spec
CHECK_DEADLOCK FALSE
PROPERTIES
    LostWithItsRefreshOnly
