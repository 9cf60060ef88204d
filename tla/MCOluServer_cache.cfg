CONSTANTS
    users = users
    boss = boss
    name = name
    v1 = v1
    c1 = c1
    c2 = c2
    Types = {users}
    Fields = {boss}
    Plain = {v1}
    Null = Null
    Absent = Absent
    NoEntity = Blank
    MaxInt = 1
    Tokens <- TokenSet
    Blank = Blank
    NodeTypes = {}
    NoType = NoType
    LineRoom = 9
    Place <- ByName
    IntMax = 99
    MaxPerPage = 2
    PageSize = 2
    FallbackSize = 1
    Clients = {c1, c2}
    Main = Main
    Requests <- CacheRequests
    NoReq = NoReq
    NoBody = NoBody
    NoAnswer = NoAnswer
    noNulls = noNulls
    needsBoss = needsBoss
    Schemas = {noNulls, needsBoss}
    Required <- MCRequired
    Allowed <- MCAllowed
    NoSchema = NoSchema
    FileSchemas <- BossTypes
    Large = {v1}
    MaxEmbedDepth = 1
    SQLite = FALSE
    Redis = TRUE
    GraphMode = "disabled"
    CascadingDelete = FALSE
    DeletesNulls = TRUE
    Named <- OneNamed
    Dirs = {}
    Faults = TRUE
    NewIds = {1}
    MaxStops = 0
SPECIFICATION FairSpec
INVARIANTS StoredIsValid StaleMeansOverlap EmbeddingsNest
PROPERTIES LonePatchKeeps HandlersProgress RequestsEnd
