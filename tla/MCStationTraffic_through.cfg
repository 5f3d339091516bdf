SPECIFICATION Spec
CONSTANTS
    Connections <- ThroughConnections
    Ends <- ThroughEnds
    Double <- ThroughDouble
    Movements <- ThroughMovements
    Station <- ThroughStation
    Service <- ThroughService
    Stop <- ThroughStop
    Number <- ThroughNumber
    Arriving <- ThroughArriving
    Departing <- ThroughDeparting
    TracksAt <- ThroughTracks
    Planned <- ThroughPlanned
    Default <- ThroughDefault
    CaseIds = {c1, c2, c3}
    Modes = {"clearance", "direct"}
    None = None
SYMMETRY Symmetry
CONSTRAINT UndeclaredOnly
CHECK_DEADLOCK FALSE
INVARIANTS NoTwoTrainsOnOneTrack TrainOnLineHoldsItsGrant ReleasedOnlyAfterDeparture DepartedTrainHadArrived HeldLineCanBeFreed
PROPERTIES GrantIsKeptUntilUsed DepartureIsGranted ImplementsLineBlocks
