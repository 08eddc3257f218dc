\* Two goroutines, two calls of Transact and one of ApplyUpdate.
CONSTANTS
    g1 = g1  g2 = g2
    t1 = t1  t2 = t2
    a1 = a1
    h1 = h1
    NoCall = NoCall
    Goroutine = {g1, g2}
    Local = {t1, t2}
    Remote = {a1}
    Handler = {h1}
    MayPanic = TRUE
    MaxEdits = 2
SPECIFICATION FairSpec
INVARIANTS TypeOK AnnouncedAtMostOnce AnnouncedInOrder NoEditLost NoEditRefused
PROPERTY EditsReachHandlers
CHECK_DEADLOCK FALSE
