SPECIFICATION Spec
CONSTANTS
    ann = ann
    i1 = i1  i2 = i2
    n1 = n1
    pic = pic  thm = thm
    Users = {ann}
    Ids = {i1, i2}
    Names = {n1}
    NoName = NoName
    Hashes = {pic, thm}
    NoHash = NoHash
    Root = Root
    Spellings = {lower}
    Canonical = lower
    NoId = NoId
    Unborn = Unborn
    Gone = Gone
    Seeded <- Nothing
    Uploads = {w1}
    Sweeps = {s1}
    Idle = Idle
    Pictures = {pic}
    ThumbOf <- MCThumbOf
    Tasks = {t1}
    NoTask = NoTask
    Ops = {"create", "move", "rename", "remove", "restore",
           "restoreAll", "path"}
PROPERTIES ContentsSpec TreeSpec
