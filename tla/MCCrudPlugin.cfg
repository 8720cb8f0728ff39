\* Two handlers in flight, two notes, four mutations.
SPECIFICATION Spec
CONSTANTS
    Handlers = {h1, h2}
    Ids = {n1, n2}
    Texts = {x, y}
    None = None
    MaxVersion = 3
    MaxMutations = 4
INVARIANTS CacheIsCoherent CountIsHonest
PROPERTIES VersionsGrow
