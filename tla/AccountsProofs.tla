--------------------------- MODULE AccountsProofs ---------------------------
(***************************************************************************)
(* What holds of Accounts for every set of clients, addresses, passwords   *)
(* and concurrent requests.                                                *)
(***************************************************************************)
EXTENDS Accounts, TLAPS

\* An account's password is known to the one who registered it ...
RegistrantKnows ==
    \A i \in Ids : Exists(i) => users[i].by = Knower[users[i].password]

\* ... and so is the one that a login has read, which may be a former one.
ReadIsOfRegistrant(q) ==
    q.pc = "verify" => /\ q.user.by = Knower[q.user.password]
                       /\ users[q.id] # NoUser
                       /\ users[q.id].by = q.user.by

ReadsAreOfRegistrants ==
    \A r \in Requests : req[r] # Free => ReadIsOfRegistrant(req[r])

\* a request whose record fits its place
Fits(q) == /\ q \in Request /\ q.client = Knower[q.password]
           /\ q.pc = "verify" => q.user # NoUser /\ q.user.email = q.email

AccountsInv ==
    /\ TypeOK /\ OwnAccountsOnly
    /\ RegistrantKnows /\ ReadsAreOfRegistrants

-----------------------------------------------------------------------------
\* a step that changes at most one account, which stays the registrant's
KeepsAccounts ==
    /\ users' \in [Ids -> User \cup {NoUser}]
    /\ RegistrantKnows'
    /\ \A i \in Ids : Exists(i) =>
          users'[i] # NoUser /\ users'[i].by = users[i].by

\* What is left to prove of a step of one request.
LEMMA RequestStep ==
  ASSUME AccountsInv, KeepsAccounts, NEW r \in Requests, NEW q,
         q = Free \/ (Fits(q) /\ ReadIsOfRegistrant(q)),
         req' = [req EXCEPT ![r] = q],
         \/ tokens' \subseteq tokens
         \/ /\ tokens' = tokens \cup {<<req[r].client, req[r].id>>}
            /\ req[r] # Free /\ Exists(req[r].id)
            /\ users[req[r].id].by = req[r].client
  PROVE  AccountsInv'
<1>1. /\ req \in [Requests -> Request \cup {Free}]
      /\ tokens \subseteq Clients \X Ids
      /\ \A s \in Requests : req[s] # Free =>
            req[s] \in Request /\ Fits(req[s]) /\ ReadIsOfRegistrant(req[s])
  BY DEF AccountsInv, TypeOK, Fits, ReadsAreOfRegistrants
<1>2. \A s \in Requests : req'[s] = Free
          \/ (Fits(req'[s]) /\ ReadIsOfRegistrant(req'[s]))
  BY <1>1
<1>3. req' \in [Requests -> Request \cup {Free}]
  BY <1>1 DEF Fits
<1>4. tokens' \subseteq Clients \X Ids
  BY <1>1 DEF Request
<1>5. TypeOK'
  BY <1>2, <1>3, <1>4 DEF TypeOK, Fits, KeepsAccounts
<1>6. ReadsAreOfRegistrants'
  <2>1. ASSUME NEW s \in Requests, req'[s] # Free, req'[s].pc = "verify"
        PROVE  /\ req'[s].user.by = Knower[req'[s].user.password]
               /\ users'[req'[s].id] # NoUser
               /\ users'[req'[s].id].by = req'[s].user.by
    <3>1. Fits(req'[s]) /\ ReadIsOfRegistrant(req'[s])
      BY <1>2, <2>1
    <3>2. req'[s].id \in Ids
      BY <3>1 DEF Fits, Request
    <3> QED
      BY <2>1, <3>1, <3>2 DEF ReadIsOfRegistrant, KeepsAccounts, Exists
  <2> QED
    BY <2>1 DEF ReadsAreOfRegistrants, ReadIsOfRegistrant
<1>7. OwnAccountsOnly'
  <2>1. \A k \in tokens' : k[2] \in Ids /\ Exists(k[2]) /\ users[k[2]].by = k[1]
    BY <1>1 DEF AccountsInv, OwnAccountsOnly, Request
  <2> QED
    BY <2>1 DEF OwnAccountsOnly, KeepsAccounts, Exists
<1> QED
  BY <1>5, <1>6, <1>7 DEF AccountsInv, KeepsAccounts

LEMMA SameAccounts ==
  ASSUME AccountsInv, UNCHANGED users
  PROVE  KeepsAccounts
  BY DEF AccountsInv, TypeOK, KeepsAccounts, RegistrantKnows, Exists

\* A $set on one account that leaves it to its registrant.
LEMMA SetAccount ==
  ASSUME AccountsInv, NEW i \in Ids, Exists(i), NEW v \in User,
         v.email = users[i].email, v.by = users[i].by,
         v.by = Knower[v.password], users' = [users EXCEPT ![i] = v]
  PROVE  KeepsAccounts
<1>1. users \in [Ids -> User \cup {NoUser}]
  BY DEF AccountsInv, TypeOK
<1>2. users'[i] = v /\ v # NoUser /\ \A j \in Ids \ {i} : users'[j] = users[j]
  BY <1>1, MarkerAssumption
<1>3. users' \in [Ids -> User \cup {NoUser}]
  BY <1>1
<1>4. RegistrantKnows'
  BY <1>2 DEF AccountsInv, RegistrantKnows, Exists
<1> QED
  BY <1>2, <1>3, <1>4 DEF KeepsAccounts, Exists

\* A $set that a token admits touches no token and no request.
LEMMA SetStep ==
  ASSUME AccountsInv, KeepsAccounts, UNCHANGED <<tokens, req>>
  PROVE  AccountsInv'
<1>1. TypeOK'
  BY DEF AccountsInv, TypeOK, KeepsAccounts
<1>2. OwnAccountsOnly'
  BY DEF AccountsInv, TypeOK, OwnAccountsOnly, KeepsAccounts, Exists
<1>3. ReadsAreOfRegistrants'
  BY DEF AccountsInv, TypeOK, ReadsAreOfRegistrants, ReadIsOfRegistrant,
         KeepsAccounts, Exists, Request
<1> QED
  BY <1>1, <1>2, <1>3 DEF AccountsInv, KeepsAccounts

-----------------------------------------------------------------------------
LEMMA Steps ==
  ASSUME AccountsInv, [Next]_vars
  PROVE  AccountsInv'
<1>1. /\ users \in [Ids -> User \cup {NoUser}]
      /\ req \in [Requests -> Request \cup {Free}]
      /\ tokens \subseteq Clients \X Ids
      /\ \A s \in Requests : req[s] # Free =>
            req[s] \in Request /\ Fits(req[s]) /\ ReadIsOfRegistrant(req[s])
  BY DEF AccountsInv, TypeOK, Fits, ReadsAreOfRegistrants
<1>2. ASSUME NEW r \in Requests, Answer(r), UNCHANGED <<users, tokens>>
      PROVE  AccountsInv'
  BY <1>2, SameAccounts, RequestStep DEF Answer
<1>3. ASSUME NEW r \in Requests, NEW op \in {"create", "login"}, Ask(r, op)
      PROVE  AccountsInv'
  <2>1. PICK e \in Emails, p \in Passwords, i \in Ids :
            req' = [req EXCEPT ![r] =
               [op |-> op, pc |-> "find", client |-> Knower[p], email |-> e,
                password |-> p, user |-> NoUser, id |-> i]]
    BY <1>3 DEF Ask
  <2> DEFINE q == [op |-> op, pc |-> "find", client |-> Knower[p], email |-> e,
                   password |-> p, user |-> NoUser, id |-> i]
  <2>2. Fits(q) /\ ReadIsOfRegistrant(q)
    BY KnowerAssumption DEF Fits, Request, ReadIsOfRegistrant
  <2>3. req' = [req EXCEPT ![r] = q] /\ UNCHANGED <<users, tokens>>
    BY <1>3, <2>1 DEF Ask
  <2> HIDE DEF q
  <2> QED
    BY <2>2, <2>3, SameAccounts, RequestStep
<1>4. ASSUME NEW r \in Requests, FindFree(r)
      PROVE  AccountsInv'
  <2> DEFINE q == [req[r] EXCEPT !.pc = "insert"]
  <2>1. UNCHANGED <<users, tokens>> /\ req[r] # Free
        /\ (Answer(r) \/ req' = [req EXCEPT ![r] = q])
    BY <1>4 DEF FindFree, At
  <2>2. Fits(q) /\ ReadIsOfRegistrant(q)
    BY <1>1, <2>1 DEF Fits, Request, ReadIsOfRegistrant
  <2> HIDE DEF q
  <2> QED
    BY <1>2, <2>1, <2>2, SameAccounts, RequestStep
<1>5. ASSUME NEW r \in Requests, Insert(r)
      PROVE  AccountsInv'
  <2> DEFINE v == NewUser(r)
  <2>1. req[r] # Free /\ UNCHANGED tokens /\ req' = [req EXCEPT ![r] = Free]
    BY <1>5 DEF Insert, At, Answer
  <2>2. CASE UNCHANGED users
    BY <2>1, <2>2, SameAccounts, RequestStep
  <2>3. CASE ~UNCHANGED users
    <3>1. PICK i \in Ids : ~Exists(i) /\ users' = [users EXCEPT ![i] = v]
      BY <1>5, <2>3 DEF Insert
    <3>2. v \in User /\ v.email = req[r].email /\ v.by = Knower[v.password]
      BY <1>1, <2>1, ProfilesAssumption DEF NewUser, User, Fits, Request
    <3> HIDE DEF v
    <3>3. /\ users'[i] = v /\ v # NoUser /\ users[i] = NoUser
          /\ \A j \in Ids \ {i} : users'[j] = users[j]
      BY <1>1, <3>1, <3>2, MarkerAssumption DEF Exists
    <3>4. RegistrantKnows'
      BY <3>2, <3>3 DEF AccountsInv, RegistrantKnows, Exists
    <3>5. KeepsAccounts
      BY <1>1, <3>1, <3>2, <3>3, <3>4 DEF KeepsAccounts, Exists
    <3> QED
      BY <2>1, <3>5, RequestStep
  <2> QED
    BY <2>2, <2>3
<1>6. ASSUME NEW r \in Requests, FindUser(r)
      PROVE  AccountsInv'
  <2>1. UNCHANGED <<users, tokens>> /\ req[r] # Free
    BY <1>6 DEF FindUser, At
  <2>2. CASE Answer(r)
    BY <1>2, <2>1, <2>2
  <2>3. CASE ~Answer(r)
    <3>1. PICK i \in Found(req[r].email) :
              req' = [req EXCEPT ![r].pc = "verify", ![r].id = i,
                                 ![r].user = users[i]]
      BY <1>6, <2>3 DEF FindUser
    <3> DEFINE v == users[i]
               q == [req[r] EXCEPT !.pc = "verify", !.id = i, !.user = v]
    <3>2. i \in Ids /\ v # NoUser /\ v.email = req[r].email
      BY <3>1 DEF Found, With, Exists
    <3>3. v \in User /\ v.by = Knower[v.password]
      BY <1>1, <3>2 DEF AccountsInv, RegistrantKnows, Exists
    <3>4. req' = [req EXCEPT ![r] = q]
      BY <3>1
    <3>5. Fits(q) /\ ReadIsOfRegistrant(q)
      <4>1. users[i] = v
        OBVIOUS
      <4> HIDE DEF v
      <4>2. q \in Request /\ q.user = v /\ q.id = i /\ q.client = req[r].client
            /\ q.password = req[r].password /\ q.email = req[r].email
        BY <1>1, <2>1, <3>2, <3>3 DEF Request
      <4> HIDE DEF q
      <4> QED
        BY <1>1, <2>1, <3>2, <3>3, <4>1, <4>2 DEF Fits, ReadIsOfRegistrant
    <3> HIDE DEF q
    <3> QED
      BY <2>1, <3>4, <3>5, SameAccounts, RequestStep
  <2> QED
    BY <2>2, <2>3
<1>7. ASSUME NEW r \in Requests, Verify(r)
      PROVE  AccountsInv'
  <2>1. req[r] # Free /\ req[r].pc = "verify" /\ UNCHANGED users
        /\ req' = [req EXCEPT ![r] = Free]
    BY <1>7 DEF Verify, At, Answer
  <2>2. CASE req[r].user.password = req[r].password
    <3>1. Exists(req[r].id) /\ users[req[r].id].by = req[r].client
      BY <1>1, <2>1, <2>2 DEF ReadIsOfRegistrant, Fits, Exists
    <3> QED
      BY <1>7, <2>1, <2>2, <3>1, SameAccounts, RequestStep DEF Verify
  <2>3. CASE req[r].user.password # req[r].password
    BY <1>7, <2>1, <2>3, SameAccounts, RequestStep DEF Verify
  <2> QED
    BY <2>2, <2>3
<1>8. ASSUME NEW c \in Clients, NEW i \in Ids,
             UpdatePassword(c, i) \/ UpdateProfile(c, i)
      PROVE  AccountsInv'
  <2>1. UNCHANGED <<tokens, req>> /\ <<c, i>> \in tokens
    BY <1>8 DEF UpdatePassword, UpdateProfile
  <2>2. Exists(i) /\ users[i].by = c /\ users[i] \in User
        /\ users[i].by = Knower[users[i].password]
    BY <1>1, <2>1 DEF AccountsInv, OwnAccountsOnly, Exists, RegistrantKnows
  <2>3. CASE UpdatePassword(c, i)
    <3>1. PICK p \in Passwords :
              Knower[p] = c /\ users' = [users EXCEPT ![i].password = p]
      BY <2>3 DEF UpdatePassword
    <3> DEFINE v == [users[i] EXCEPT !.password = p]
    <3>2. /\ v \in User /\ v.email = users[i].email /\ v.by = users[i].by
          /\ v.password = p
      BY <2>2 DEF User
    <3>3. users' = [users EXCEPT ![i] = v]
      BY <3>1
    <3> HIDE DEF v
    <3> QED
      BY <2>1, <2>2, <3>1, <3>2, <3>3, SetAccount, SetStep
  <2>4. CASE UpdateProfile(c, i)
    <3>1. PICK p \in Profiles : users' = [users EXCEPT ![i].profile = p]
      BY <2>4 DEF UpdateProfile
    <3> DEFINE v == [users[i] EXCEPT !.profile = p]
    <3>2. /\ v \in User /\ v.email = users[i].email /\ v.by = users[i].by
          /\ v.password = users[i].password
      BY <2>2 DEF User
    <3>3. users' = [users EXCEPT ![i] = v]
      BY <3>1
    <3> HIDE DEF v
    <3> QED
      BY <2>1, <2>2, <3>2, <3>3, SetAccount, SetStep
  <2> QED
    BY <1>8, <2>3, <2>4
<1>9. CASE Expire
  <2>1. tokens' \subseteq tokens /\ UNCHANGED <<users, req>>
    BY <1>9 DEF Expire
  <2> QED
    BY <2>1 DEF AccountsInv, TypeOK, OwnAccountsOnly,
                RegistrantKnows, ReadsAreOfRegistrants, ReadIsOfRegistrant,
                Exists
<1>10. ASSUME NEW r \in Requests, Cut(r)
       PROVE  AccountsInv'
  BY <1>2, <1>10 DEF Cut
<1>11. CASE UNCHANGED vars
  BY <1>11 DEF vars, AccountsInv, TypeOK, OwnAccountsOnly,
               RegistrantKnows, ReadsAreOfRegistrants, ReadIsOfRegistrant,
               Exists
<1> QED
  BY <1>3, <1>4, <1>5, <1>6, <1>7, <1>8, <1>9, <1>10, <1>11 DEF Next

\* Accounts stay their registrants', whatever overlaps.
THEOREM AccountsInvariant == Spec => []AccountsInv
<1>1. Init => AccountsInv
  BY DEF Init, AccountsInv, TypeOK, OwnAccountsOnly,
         RegistrantKnows, ReadsAreOfRegistrants, Exists
<1> QED
  BY <1>1, Steps, PTL DEF Spec

\* Every reachable state is well typed (create_user, login).
THEOREM AccountsTypeCorrect == Spec => []TypeOK
<1>1. AccountsInv => TypeOK
  BY DEF AccountsInv
<1> QED
  BY <1>1, AccountsInvariant, PTL

\* A token opens only what its holder has registered (login, update_password).
THEOREM TokensOpenOwnAccounts == Spec => []OwnAccountsOnly
<1>1. AccountsInv => OwnAccountsOnly
  BY DEF AccountsInv
<1> QED
  BY <1>1, AccountsInvariant, PTL
=============================================================================
