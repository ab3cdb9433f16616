CONSTANTS
    MaxPhotos = 2
    Clicks = 2
    Starts <- MCStarts
SPECIFICATION FairSpec
CHECK_DEADLOCK FALSE
INVARIANTS
    PanelsTypeOK
    ShowsMyOwnWrites
PROPERTIES
    RefusedOnlyWhenBehind
    PagesSettle
