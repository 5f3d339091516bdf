SPECIFICATION Spec
CONSTANTS
    Connections <- MeetConnections
    Ends <- MeetEnds
    Double = {}
    Movements <- MeetMovements
    Station <- MeetStation
    Service <- MeetService
    Stop <- MeetStop
    Number <- MeetNumber
    Arriving <- MeetArriving
    Departing <- MeetDeparting
    TracksAt <- MeetTracks
    Planned <- MeetPlanned
    Default <- MeetDefault
    CaseIds = {c1, c2}
    Modes = {"clearance", "direct"}
    None = None
SYMMETRY Symmetry
CHECK_DEADLOCK FALSE
INVARIANTS TypeOK LineIsClaimedOnce OneCasePerMovement
PROPERTY NothingIsTakenBack
