CONSTANTS
    users = users
    boss = boss
    name = name
    v1 = v1
    c1 = c1
    c2 = c2
    Types = {users}
    Fields = {boss}
    Plain = {v1}
    Null = Null
    Absent = Absent
    NoEntity = Blank
    MaxInt = 2
    Tokens <- TokenSet
    Blank = Blank
    NodeTypes = {}
    NoType = NoType
    LineRoom = 9
    Place <- ByNumber
    IntMax = 99
    MaxPerPage = 2
    PageSize = 2
    FallbackSize = 1
    Clients = {c1, c2}
    Main = Main
    Requests <- GraphRequests
    NoReq = NoReq
    NoBody = NoBody
    NoAnswer = NoAnswer
    noNulls = noNulls
    needsBoss = needsBoss
    Schemas = {noNulls, needsBoss}
    Required <- MCRequired
    Allowed <- MCAllowed
    NoSchema = NoSchema
    FileSchemas <- NoSchemas
    Large = {}
    MaxEmbedDepth = 1
    SQLite = TRUE
    Redis = FALSE
    GraphMode = "indexed"
    CascadingDelete = FALSE
    DeletesNulls = TRUE
    Named <- OneNamed
    Dirs = {users}
    Faults = TRUE
    NewIds = {1}
    MaxStops = 1
SPECIFICATION Spec
INVARIANTS TypeOK LiveRefsLinked EdgesAreReferences PagesCover
SYMMETRY Symmetry
