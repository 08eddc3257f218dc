\* Two writers and a third peer, one character at a time.
CONSTANTS
    Client = {1, 2, 3}
    Writer = {1, 2}
    Text = "text"
    List = {"text"}
    Key = {}
    NoList = NoList
    WideChar = {}
    InsertLen = {1}
    DeleteLen = {1}
    Slack = 0
    MaxChars = 3
    MaxDeletes = 1
    MaxOps = 1
    MaxCopies = 0
    MaxSyncs = 1
SPECIFICATION Spec
INVARIANTS TypeOK StoreIsTheUpdateSet IdNamesOneChar NoItemLost
PROPERTY SyncCatchesUp
CHECK_DEADLOCK FALSE
