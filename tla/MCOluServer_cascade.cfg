CONSTANTS
    users = users
    boss = boss
    name = name
    v1 = v1
    c1 = c1
    c2 = c2
    Types = {users}
    Fields = {boss, name}
    Plain = {v1}
    Null = Null
    Absent = Absent
    NoEntity = Blank
    MaxInt = 2
    Tokens <- TokenSet
    Blank = Blank
    NodeTypes = {}
    NoType = NoType
    LineRoom = 9
    Place <- ByName
    IntMax = 99
    MaxPerPage = 2
    PageSize = 2
    FallbackSize = 1
    Clients = {c1}
    Main = Main
    Requests <- CascadeRequests
    NoReq = NoReq
    NoBody = NoBody
    NoAnswer = NoAnswer
    noNulls = noNulls
    needsBoss = needsBoss
    Schemas = {noNulls, needsBoss}
    Required <- MCRequired
    Allowed <- MCAllowed
    NoSchema = NoSchema
    FileSchemas <- NoSchemas
    Large = {}
    MaxEmbedDepth = 1
    SQLite = FALSE
    Redis = FALSE
    GraphMode = "indexed"
    CascadingDelete = TRUE
    DeletesNulls = TRUE
    Named <- OneNamed
    Dirs = {}
    Faults = FALSE
    NewIds = {1, 2}
    MaxStops = 0
SPECIFICATION Spec
PROPERTIES CascadeCompletes
