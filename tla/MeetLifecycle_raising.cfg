SPECIFICATION Spec
CONSTANTS
    c1 = c1
    None = None
    Commands = {c1}
    MaxWorld = 1
    Kinds = {"tick", "jump", "reset"}
INVARIANTS
    TrafficIsNeverMixed
CHECK_DEADLOCK FALSE
