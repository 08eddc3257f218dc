\* One peer that types strings of several characters and deletes within them.
CONSTANTS
    Client = {1}
    Writer = {1}
    Text = "text"
    List = {"text"}
    Key = {}
    NoList = NoList
    WideChar = {}
    InsertLen = {1, 2}
    DeleteLen = {1}
    Slack = 0
    MaxChars = 4
    MaxDeletes = 1
    MaxOps = 4
    MaxCopies = 0
    MaxSyncs = 0
SPECIFICATION Spec
INVARIANT IdNamesOneChar
CHECK_DEADLOCK FALSE
