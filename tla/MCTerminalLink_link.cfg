SPECIFICATION FairSpec
CONSTANTS
    d1 = d1
    d2 = d2
    None = None
    Devices = {d1, d2}
    MaxSessions = 1
    QueueLimit = 2
    MaxBoot <- Connections
    Commands <- OnePress
    Places <- Stations
    FirstPlace <- First
    MaxLink = 1
    MaxView = 1
    MaxRestarts = 1
    MaxMoves = 0
INVARIANTS
    TypeOK
    QueuedWorkOfEndedSessionsIsSkipped
PROPERTIES
    AnsweredBoxesGetPictures
CHECK_DEADLOCK FALSE
