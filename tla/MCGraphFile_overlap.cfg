CONSTANTS
    s1 = s1
    s2 = s2
    Savers = {s1, s2}
    Buffers = 1
    i1 = i1
    i2 = i2
    i3 = i3
    i4 = i4
    Inodes = {i1, i2, i3, i4}
    NoInode = NoInode
    Hole = Hole
    MaxVersion = 2
SPECIFICATION Spec
INVARIANT FileComplete
