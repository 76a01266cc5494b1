SPECIFICATION Spec
CONSTANTS
    ann = ann  bob = bob
    i1 = i1  i2 = i2
    pic = pic  thm = thm
    Users = {ann, bob}
    Ids = {i1, i2}
    Names = {}
    NoName = NoName
    Hashes = {pic, thm}
    NoHash = NoHash
    Root = Root
    Spellings = {lower}
    Canonical = lower
    NoId = NoId
    Unborn = Unborn
    Gone = Gone
    Seeded <- OldThumb
    Fetches = {d1}
    Listings = {l1}
    Free = Free
    Md5 <- OldMd5
    Legacy <- OldObject
    Garbled = Garbled
    MaxVersion = 1
    MaxLinks = 1
INVARIANTS TypeOK RevokedLinkServesNothing LinksAreCurrent OwnContentOnly
