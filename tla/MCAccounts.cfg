SPECIFICATION Spec
CONSTANTS
    ann = ann  bob = bob
    a1 = a1  a2 = a2  b1 = b1
    e1 = e1  e2 = e2
    u1 = u1  u2 = u2  u3 = u3
    r1 = r1  r2 = r2  r3 = r3
    Clients = {ann, bob}
    Emails = {e1, e2}
    Passwords = {a1, a2, b1}
    Knower <- KnownTo
    Profiles = {0, 1}
    Ids = {u1, u2, u3}
    NoUser = NoUser
    Requests = {r1, r2}
    Free = Free
SYMMETRY AccountSymmetry
INVARIANTS TypeOK OwnAccountsOnly
