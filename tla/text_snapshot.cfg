\* One writer whose document is saved and restored after a deletion.
CONSTANTS
    Client = {1}
    Writer = {1}
    Text = "text"
    List = {"text"}
    Key = {}
    NoList = NoList
    WideChar = {}
    InsertLen = {1}
    DeleteLen = {1}
    Slack = 0
    MaxChars = 3
    MaxDeletes = 1
    MaxOps = 2
    MaxCopies = 0
    MaxSyncs = 0
SPECIFICATION Spec
INVARIANT SnapshotKeepsTheText
CHECK_DEADLOCK FALSE
