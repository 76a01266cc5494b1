SPECIFICATION Spec
CONSTANTS
    k1 = k1  k2 = k2
    f1 = f1  f2 = f2  f3 = f3  f4 = f4
    w1 = w1  w2 = w2  r1 = r1
    Keys = {k1, k2}
    Files = {f1, f2, f3, f4}
    NoFile = NoFile
    Writers = {w1, w2}
    Readers = {r1}
    Idle = Idle
    CHUNK_SIZE = 2
    TagSize = 1
    MaxIndex = 2
    MaxSize = 5
SYMMETRY ObjectSymmetry
INVARIANTS TypeOK PublishedIsWhole
PROPERTY ObjectStoreSpec
