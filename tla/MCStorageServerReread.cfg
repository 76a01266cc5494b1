SPECIFICATION Spec
CONSTANTS
    ann = ann
    i1 = i1  i2 = i2
    n1 = n1
    pic = pic  thm = thm
    Users = {ann}
    Ids = {i1, i2}
    Names = {n1}
    NoName = NoName
    Hashes = {thm}
    NoHash = NoHash
    Root = Root
    Spellings = {lower}
    Canonical = lower
    NoId = NoId
    Unborn = Unborn
    Gone = Gone
    Seeded <- TrashedFolder
    Uploads = {}
    Sweeps = {s1}
    Idle = Idle
    Pictures = {}
    ThumbOf <- MCThumbOf
    Tasks = {t1}
    NoTask = NoTask
    Ops = {"restore"}
INVARIANT RestoreRereads
