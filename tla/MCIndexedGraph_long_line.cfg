CONSTANTS
    users = users
    posts = posts
    i1 = i1
    i2 = i2
    boss = boss
    author = author
    admin = admin
    w1 = w1
    w2 = w2
    Blank = Blank
    Tokens = {users, posts, i1, i2, boss, author, Blank}
    NodeTypes = {admin}
    NoType = NoType
    LineRoom = 1
    Workers = {w1}
    Updates <- ThreeUpdates
    Removals = {}
    NoJob = NoJob
    NoFile = NoFile
    MaxListed = 1
SPECIFICATION Spec
PROPERTY FailedLoadIsEmpty
