CONSTANTS
    user = user
    f = f
    c1 = c1
    c2 = c2
    auditor = auditor
    Types = {user}
    Fields = {f}
    Plain = {}
    Null = Null
    Absent = Absent
    NoEntity = NoEntity
    MaxInt = 3
    Clients = {c1}
    Auditors = {}
    Ops <- LastIdOps
    NoOp = NoOp
    NoRet = NoRet
    CursorBreaks = FALSE
    NoTx = NoTx
    NoClient = NoClient
SPECIFICATION Spec
INVARIANT SeqBoundsIds
