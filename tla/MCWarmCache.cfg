\* Four keys in a cache of three; weights that need one to three evictions.
SPECIFICATION CacheSpec
CONSTANTS
    Keys = {a, b, c, d}
    Weights = {0, 1, 3}
    MaxEntries = 3
    MaxAge = 1
    SoftLimit = 5
    HardLimit = 8
    Usages = {4, 5, 8}
INVARIANTS OrderIsUse AgeIsHonest
PROPERTIES PressureIsMet
