\* One edit, two installs at once, one process.
SPECIFICATION Spec
CONSTANTS
    Revisions = {1, 2, 3}
    MethodsOf <- MCMethodsOf
    Streaming = {3}
    OwnFiles <- MCOwnFiles
    None = None
    Empty = Empty
    Stale = Stale
    Damaged = Damaged
    i1 = i1
    i2 = i2
    Authored <- MCAuthored
    Installers = {i1, i2}
    MaxEdits = 1
    MaxPackages = 1
    MaxInstalls = 2
    MaxSpawns = 1
INVARIANTS CanonicalInstalls InstalledIsWhole RunsItsInstall BuiltIsAccepted
ACTION_CONSTRAINT AuthorFirst
VIEW View
SYMMETRY Symmetry
CHECK_DEADLOCK FALSE
