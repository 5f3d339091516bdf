SPECIFICATION Spec
CONSTANTS
    d1 = d1
    d2 = d2
    None = None
    Devices = {d1}
    MaxSessions = 1
    QueueLimit = 2
    MaxBoot <- Connections
    Commands <- OnePress
    Places <- Stations
    FirstPlace <- First
    MaxLink = 2
    MaxView = 4
    MaxRestarts = 1
    MaxMoves = 2
INVARIANTS
    AnswersAreTrue
CHECK_DEADLOCK FALSE
