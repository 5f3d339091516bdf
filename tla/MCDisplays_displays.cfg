SPECIFICATION Spec
CONSTANTS
    PagesOpen <- MCShown
    None = None
    MaxDays = 2
    Widths = {130}
    Speeds = {1, 6}
    Settings = {100, 400}
    Delays = {0, 2}
    LastLook = 4
    Begin = 1430
    Horizon = 11
INVARIANT ScreenIsTrue
PROPERTIES ScreenGoesForward ScreenComesBack
CHECK_DEADLOCK FALSE
