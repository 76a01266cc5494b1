SPECIFICATION Spec
CONSTANTS
    ann = ann
    i1 = i1  i2 = i2  i3 = i3  i4 = i4
    n1 = n1  n2 = n2
    hsh = hsh
    Users = {ann}
    Ids = {i1, i2, i3, i4}
    Names = {n1}
    NoName = NoName
    Hashes = {hsh}
    NoHash = NoHash
    Root = Root
    Spellings = {lower, upper}
    Canonical = lower
    NoId = NoId
    Unborn = Unborn
    Gone = Gone
    Seeded <- InTheTrash
    Tasks = {t1}
    NoTask = NoTask
    Ops = {"create", "move", "rename", "remove", "restore",
           "restoreBatch", "restoreAll"}
    TrashOps = {"upload", "purge"}
INVARIANTS TypeOK SerialTreeSound RestoreIsWhole
    ThumbnailFollows
CONSTRAINT Undisturbed
