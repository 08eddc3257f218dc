\* Two writers, one character at a time, no deletions, causal order suffices.
CONSTANTS
    Client = {1, 2}
    Writer = {1, 2}
    Text = "text"
    List = {"text"}
    Key = {}
    NoList = NoList
    WideChar = {}
    InsertLen = {1}
    DeleteLen = {1}
    Slack = 0
    MaxChars = 3
    MaxDeletes = 0
    MaxOps = 2
    MaxCopies = 0
    MaxSyncs = 0
SPECIFICATION Spec
INVARIANT Converged
CHECK_DEADLOCK FALSE
