\* One package, no install: what pluginctl packs need not install.
SPECIFICATION Spec
CONSTANTS
    Revisions = {1, 2, 3}
    MethodsOf <- MCMethodsOf
    Streaming = {3}
    OwnFiles <- MCOwnFiles
    None = None
    Empty = Empty
    Stale = Stale
    Damaged = Damaged
    i1 = i1
    i2 = i2
    Authored <- MCAuthored
    Installers = {i1}
    MaxEdits = 1
    MaxPackages = 1
    MaxInstalls = 1
    MaxSpawns = 1
INVARIANTS PackedInstalls
CHECK_DEADLOCK FALSE
