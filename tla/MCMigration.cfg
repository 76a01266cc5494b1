SPECIFICATION Spec
CONSTANTS
    ann = ann  bob = bob
    i1 = i1  i2 = i2  i3 = i3  i4 = i4
    c1 = c1 
    Users = {ann, bob}
    Ids = {i1, i2, i3, i4}
    Contents = {c1}
    Null = Null
    Garbled = Garbled
    NoDoc = NoDoc
    Idle = Idle
    Legacy <- OldFiles
    MaxRuns = 2
INVARIANTS TypeOK MigratedIsVerified DoneIsDone
PROPERTY ReadsTheSame
