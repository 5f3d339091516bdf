SPECIFICATION MCSpec
CONSTANTS
    None = None
    m1 = m1
    m2 = m2
    c1 = c1
    c2 = c2
    l1 = l1
    t1 = t1
    k1 = k1
    k2 = k2
    Numbers = {"known"}
    Order <- MCOrder
    Cases <- MCCases
    Ours <- MCOurs
    Messages <- MCMessages
    Lines <- MCLines
    Tracks <- MCTracks
    Languages = {"sv"}
    Traffics <- MCTraffics
    Refreshes = {1, 2}
    MaxOverlaps = 1
    MaxPublication = 2
INVARIANTS
    TypeOK AnnouncedOnce
PROPERTIES
    ShownIsSent PanelRecovers
CHECK_DEADLOCK FALSE
