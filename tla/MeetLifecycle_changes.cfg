SPECIFICATION Spec
CONSTANTS
    c1 = c1
    None = None
    Commands = {c1}
    MaxWorld = 3
    Kinds = {"tick", "jump", "reset", "day", "config", "meet", "edit"}
INVARIANTS
    TypeOK
    OnlyACutDayIsMixed
    AppliedOnce
    CommandsFitTheirData
PROPERTIES
    ACompletedChangeMends
CHECK_DEADLOCK FALSE
