CONSTANTS
    users = users
    posts = posts
    i1 = i1
    i2 = i2
    boss = boss
    author = author
    admin = admin
    w1 = w1
    w2 = w2
    Blank = Blank
    Tokens = {users, posts, i1, i2, boss, author, Blank}
    NodeTypes = {admin}
    NoType = NoType
    LineRoom = 9
    Workers = {w1, w2}
    Updates <- MutualUpdates
    Removals <- ServerRemovals
    NoJob = NoJob
    NoFile = NoFile
    MaxListed = 1
SPECIFICATION Spec
INVARIANTS TypeOK MapsAgree
PROPERTIES EdgesPersist ReloadStable
SYMMETRY Symmetry
