\* Two writers and a reader of an Array and a Map key.
CONSTANTS
    Client = {1, 2, 3}
    Writer = {1, 2}
    Array = "array"
    Key = {"key"}
    List = {"array", "key"}
    NoList = NoList
    WideChar = {}
    InsertLen = {1, 2}
    DeleteLen = {1}
    MaxChars = 3
    MaxDeletes = 1
    MaxOps = 2
    MaxCopies = 0
    MaxSyncs = 0
SPECIFICATION Spec
INVARIANTS NoItemLost  ViewersShowAVersion
PROPERTY EditsHitTheirIndex OrderIsStable 
CHECK_DEADLOCK FALSE
