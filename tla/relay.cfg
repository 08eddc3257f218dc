\* Two clients that connect three times in all, two edits, links that hold one
\* message, one connection that breaks or is closed, one restart of the relay.
CONSTANTS
    Client = {"a", "b"}
    Cap = 1
    MaxConns = 2
    MaxDials = 3
    MaxEdits = 2
    MaxBreaks = 1
    MaxRestarts = 1
SPECIFICATION FairSpec
INVARIANTS TypeOK UpdatesReachMembers   
PROPERTIES Settles
CHECK_DEADLOCK FALSE
