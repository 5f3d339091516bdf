SPECIFICATION FairSpec
CONSTANTS
    Day = 3
    Changes = {0, 1}
    WaitLimit = 1
    Days = {1, 5}
    MaxDay = 5
    MaxElapsed = 6
    MaxGeneration = 3
    MaxRestarts = 1
    None = None
INVARIANTS
    TypeOK
PROPERTIES
    OneDayAtATime DayChangeComes
CHECK_DEADLOCK FALSE
