\* Two peers with two goroutines each, one field that can be encoded and one that
\* cannot, two calls that change a state.
CONSTANTS
    Peer = {1, 2}
    Thread = {"user", "net"}
    Field = {"cursor", "func"}
    Unencodable = {"func"}
    Absent = Absent
    Null = Null
    Idle = Idle
    MaxCalls = 2
    MaxUpdates = 3
SPECIFICATION FairSpec
INVARIANTS TypeOK Authentic ClockNamesState LocalStateIsMine HandlersKnow
PROPERTIES  NewestArrives
CHECK_DEADLOCK FALSE
