CONSTANTS
    user = user
    f = f
    g = g
    v = v
    c1 = c1
    c2 = c2
    Types = {user}
    Fields = {f, g}
    Plain = {v}
    Null = Null
    Absent = Absent
    NoEntity = NoEntity
    MaxInt = 3
    Clients = {c1, c2}
    Ops <- PatchOps
    NoOp = NoOp
    NoClient = NoClient
    NoFile = NoFile
    Torn = Torn
    Faults = FALSE
    Crashes = FALSE
SPECIFICATION Spec
PROPERTIES PatchKeepsRest
