CONSTANTS
    user = user
    f = f
    c1 = c1
    c2 = c2
    auditor = auditor
    Types = {user}
    Fields = {f}
    Plain = {}
    Null = Null
    Absent = Absent
    NoEntity = NoEntity
    MaxInt = 2
    Clients = {c1, c2}
    Auditors = {auditor}
    Ops <- SyncedOps
    NoOp = NoOp
    NoRet = NoRet
    CursorBreaks = FALSE
    NoTx = NoTx
    NoClient = NoClient
SPECIFICATION FairSpec
INVARIANT LiveLinksPresent
PROPERTIES AlarmMeansRace CallsReturn
