SPECIFICATION FairSpec
CONSTANTS
    ann = ann  bob = bob
    i1 = i1  i2 = i2  i3 = i3
    pic = pic  thm = thm
    Users = {ann}
    Ids = {i1, i2}
    Names = {n1}
    NoName = NoName
    Hashes = {pic, thm}
    NoHash = NoHash
    Root = Root
    Spellings = {lower}
    Canonical = lower
    NoId = NoId
    Unborn = Unborn
    Gone = Gone
    Seeded <- NothingYet
    Uploads = {w1}
    Sweeps = {s1, s2}
    Idle = Idle
    Pictures = {pic}
    ThumbOf <- MCThumbOf
    TreeOps = {"trash", "move", "rename", "create"}
INVARIANTS TypeOK ContentKept NoLeak
PROPERTY OrphansCollected
