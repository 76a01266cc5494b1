SPECIFICATION FairSpec
CONSTANTS
    ann = ann
    i1 = i1  i2 = i2  i3 = i3  i4 = i4
    n1 = n1  n2 = n2
    hsh = hsh
    Users = {ann}
    Ids = {i1, i2}
    Names = {n1, n2}
    NoName = NoName
    Hashes = {hsh}
    NoHash = NoHash
    Root = Root
    Spellings = {lower}
    Canonical = lower
    NoId = NoId
    Unborn = Unborn
    Gone = Gone
    Seeded <- ThreeFolders
    Tasks = {t1, t2}
    NoTask = NoTask
    Ops = {"move", "path", "remove"}
    TrashOps = {}
INVARIANT AcyclicUnlessRaced
PROPERTIES WalksEnd CollectEnds
