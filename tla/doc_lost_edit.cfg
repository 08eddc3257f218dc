\* Two goroutines, one call of Transact and one of ApplyUpdate that overlap.
CONSTANTS
    g1 = g1  g2 = g2
    t1 = t1  t2 = t2
    a1 = a1
    h1 = h1
    NoCall = NoCall
    Goroutine = {g1, g2}
    Local = {t1}
    Remote = {a1}
    Handler = {h1}
    MayPanic = FALSE
    MaxEdits = 1
SPECIFICATION Spec
INVARIANT EditsAnnounced
CHECK_DEADLOCK FALSE
