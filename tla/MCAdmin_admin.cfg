SPECIFICATION Spec
CONSTANTS
    PagesOpen <- MCShown
    None = None
    Pages <- MCPages
    MaxMeets = 2
    MaxReads = 1
    Tries = 2
    Patience = 1
    MaxBoots = 2
    MaxAttempts = 2
    Copies = {c1}
    Paths = {"/", "drift", "installningar", "display"}
    MaxTasks = 1
    MaxEnds = 1
    a1 = a1
    f1 = f1
    f2 = f2
    Admins = {a1, a2}
    Files = {f1, f2}
    p1 = p1
    Pdfs = {p1, p2}
    n1 = n1
    MaxUploads = 2
    Boxes = {b1, b2}
    Sites = {s1}
    MaxVersions = 4
    MaxAge = 2
    MaxTables = 2
INVARIANT AdminIsRight
PROPERTIES AdminStepsAreRight AdminComesBack
CHECK_DEADLOCK FALSE
