\* Two callers on two namespaces, one below the other, with one key each;
\* locks in the lower one.
SPECIFICATION Spec
CONSTANTS
    n1 = n1
    n2 = n2
    k1 = k1
    Kinds = {"memory", "redis"}
    Namespaces = {n1, n2}
    Below <- MCBelow
    Keys = {k1}
    LockKeys <- MCLockKeys
    Callers = {c1, c2}
    Tokens = {t1, t2}
    NoToken = NoToken
    MaxTtl = 1
INVARIANTS LeaseIsExclusive ListingIsComplete
PROPERTIES ClearEmpties LeaseLockHolds LocksEnd
