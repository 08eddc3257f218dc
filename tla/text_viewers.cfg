\* One writer and one viewer, to whom updates also come again.
CONSTANTS
    Client = {1, 2}
    Writer = {1}
    Text = "text"
    List = {"text"}
    Key = {}
    NoList = NoList
    WideChar = {}
    InsertLen = {1}
    DeleteLen = {1, 2}
    Slack = 0
    MaxChars = 3
    MaxDeletes = 2
    MaxOps = 2
    MaxCopies = 2
    MaxSyncs = 1
SPECIFICATION FairSpec
INVARIANTS ViewersShowAVersion SnapshotKeepsInsertions
PROPERTY ViewersCatchUp
CHECK_DEADLOCK FALSE
