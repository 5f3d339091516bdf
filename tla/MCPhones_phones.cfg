SPECIFICATION Spec
CONSTANTS
    PagesOpen <- MCShown
    None = None
    Users = {u1}
    Catalog = {d1}
    Times <- MCTimes
    Last = 8
    MaxSilence = 1
    MaxActivations = 2
    Drivers = {me, other}
    Me = me
    Stations = {s1}
    Midnight = 6
    Visible = 1
    Fading = 1
    MaxMinutes = 2
    MaxAsks = 2
    MaxContext = 2
    MaxRevision = 1
INVARIANT PhoneIsTrue
PROPERTIES PhoneGoesForward PhoneComesBack
CHECK_DEADLOCK FALSE
