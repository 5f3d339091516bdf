SPECIFICATION Spec
CONSTANTS
    MaxWall = 4
    Times = {1, 7}
    Speeds = {1, 3}
    PlanStart = 5
    Day = 8
    None = None
INVARIANTS
    TypeOK
    MeetTimeIsKept
PROPERTIES
    RestartKeepsTheClock
CHECK_DEADLOCK FALSE
