\* One peer that types and deletes strings of several characters.
CONSTANTS
    Client = {1}
    Writer = {1}
    Text = "text"
    List = {"text"}
    Key = {}
    NoList = NoList
    WideChar = {}
    InsertLen = {1, 2, 3}
    DeleteLen = {1, 2}
    Slack = 1
    MaxChars = 4
    MaxDeletes = 2
    MaxOps = 3
    MaxCopies = 0
    MaxSyncs = 0
SPECIFICATION Spec
INVARIANT LenIsTheText
PROPERTIES ImplementsBuffer EditsHitTheirIndex
CHECK_DEADLOCK FALSE
