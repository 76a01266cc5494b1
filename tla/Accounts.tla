------------------------------ MODULE Accounts ------------------------------
(***************************************************************************)
(* Accounts: registration, login, the password and the profile, as         *)
(* concurrent handlers over the collection "users" with its unique index   *)
(* on the address.  An address is looked up, compared and indexed as it is *)
(* written.  An account is never deleted, and an access token is good      *)
(* until it expires, whatever becomes of the password.                     *)
(***************************************************************************)
CONSTANTS
    Clients,    \* people
    Emails,     \* addresses, as they are written
    Passwords,
    Knower,     \* password -> the one client who knows it
    Profiles,   \* what update_profile can set the profile to
    Ids,        \* object ids
    NoUser,     \* users[i] of an id not given out
    Requests,   \* slots for concurrent requests
    Free        \* a slot without a request

VARIABLES
    users,      \* id -> user or NoUser
    tokens,     \* <<client, id>>: access tokens, with whom they were given to
    req         \* slot -> request in progress

vars == <<users, tokens, req>>

User == [email : Emails, password : Passwords, profile : Profiles,
         by : Clients]          \* history: who registered

Request == [op : {"create", "login"},
            pc : {"find", "insert", "verify"},
            client : Clients, email : Emails, password : Passwords,
            user : User \cup {NoUser},      \* what find_by_email has returned
            id : Ids]                       \* and its id

ASSUME MarkerAssumption == NoUser \notin User /\ Free \notin Request
ASSUME KnowerAssumption == Knower \in [Passwords -> Clients]
ASSUME ProfilesAssumption == Profiles # {}

Exists(i) == users[i] # NoUser
With(e) == {i \in Ids : Exists(i) /\ users[i].email = e}

At(r, pc) == req[r] # Free /\ req[r].pc = pc

Answer(r) == req' = [req EXCEPT ![r] = Free]

-----------------------------------------------------------------------------
Ask(r, op) ==
    /\ req[r] = Free
    /\ \E e \in Emails, p \in Passwords, i \in Ids :
          req' = [req EXCEPT ![r] =
              [op |-> op, pc |-> "find", client |-> Knower[p], email |-> e,
               password |-> p, user |-> NoUser, id |-> i]]
    /\ UNCHANGED <<users, tokens>>

\* mutation of Found: whatever comes first
FoundAny(e) == {i \in Ids : Exists(i)}

\* find_by_email
Found(e) == With(e)

\* create_user, up to the insert
FindFree(r) ==
    /\ At(r, "find") /\ req[r].op = "create"
    /\ IF Found(req[r].email) = {}
       THEN req' = [req EXCEPT ![r].pc = "insert"] ELSE Answer(r)
    /\ UNCHANGED <<users, tokens>>

\* users_email_unique
IndexAllows(e) == With(e) = {}

NewUser(r) ==
    [email |-> req[r].email, password |-> req[r].password,
     profile |-> CHOOSE p \in Profiles : TRUE, by |-> req[r].client]

\* mutation of Insert: a duplicate is replaced
InsertOver(r) ==
    /\ At(r, "insert")
    /\ \E i \in Ids :
          /\ With(req[r].email) = {} => ~Exists(i)
          /\ With(req[r].email) # {} => i \in With(req[r].email)
          /\ users' = [users EXCEPT ![i] =
                IF Exists(i) THEN [@ EXCEPT !.password = req[r].password]
                             ELSE NewUser(r)]
    /\ Answer(r)
    /\ UNCHANGED tokens

\* a duplicate key is answered with 409
Insert(r) ==
    /\ At(r, "insert")
    /\ \/ /\ IndexAllows(req[r].email)
          /\ \E i \in {j \in Ids : ~Exists(j)} :
                users' = [users EXCEPT ![i] = NewUser(r)]
       \/ ~IndexAllows(req[r].email) /\ UNCHANGED users
    /\ Answer(r)
    /\ UNCHANGED tokens

\* login
FindUser(r) ==
    /\ At(r, "find") /\ req[r].op = "login"
    /\ IF Found(req[r].email) = {} THEN Answer(r)
       ELSE \E i \in Found(req[r].email) :
               req' = [req EXCEPT ![r].pc = "verify", ![r].id = i,
                                  ![r].user = users[i]]
    /\ UNCHANGED <<users, tokens>>

\* the password is compared with what was read, which may be a former one
Verify(r) ==
    /\ At(r, "verify")
    /\ tokens' = IF req[r].user.password = req[r].password
                 THEN tokens \cup {<<req[r].client, req[r].id>>} ELSE tokens
    /\ Answer(r)
    /\ UNCHANGED users

\* update_password: one $set, for which the old password is not asked
UpdatePassword(c, i) ==
    /\ <<c, i>> \in tokens
    /\ \E p \in {q \in Passwords : Knower[q] = c} :
          users' = [users EXCEPT ![i].password = p]
    /\ UNCHANGED <<tokens, req>>

\* update_profile: a $set of the fields that were given
UpdateProfile(c, i) ==
    /\ <<c, i>> \in tokens
    /\ \E p \in Profiles : users' = [users EXCEPT ![i].profile = p]
    /\ UNCHANGED <<tokens, req>>

\* seven days
Expire ==
    /\ \E k \in tokens : tokens' = tokens \ {k}
    /\ UNCHANGED <<users, req>>

Cut(r) ==
    /\ req[r] # Free
    /\ Answer(r)
    /\ UNCHANGED <<users, tokens>>

-----------------------------------------------------------------------------
Init ==
    /\ users = [i \in Ids |-> NoUser]
    /\ tokens = {}
    /\ req = [r \in Requests |-> Free]

Next ==
    \/ \E r \in Requests :
          \/ Ask(r, "create") \/ FindFree(r) \/ Insert(r)
          \/ Ask(r, "login") \/ FindUser(r) \/ Verify(r) \/ Cut(r)
    \/ \E c \in Clients, i \in Ids : UpdatePassword(c, i) \/ UpdateProfile(c, i)
    \/ Expire

Spec == Init /\ [][Next]_vars

-----------------------------------------------------------------------------
(* Properties                                                              *)

\* Every variable has its type, and what a login compares is an account of
\* the address it was given.
TypeOK ==
    /\ users \in [Ids -> User \cup {NoUser}]
    /\ tokens \subseteq Clients \X Ids
    /\ req \in [Requests -> Request \cup {Free}]
    /\ \A r \in Requests : req[r] # Free =>
          /\ req[r].client = Knower[req[r].password]
          /\ req[r].pc = "verify" => /\ req[r].user # NoUser
                                    /\ req[r].user.email = req[r].email

\* A token opens an account that its holder has registered: the password of
\* a registration that lost, or that was answered with "already exists", is
\* never an account's, nor is one that another client has set, also when the
\* password changes between a login's read and its comparison (login:79-104,
\* create_user, update_password:256-261).
OwnAccountsOnly == \A k \in tokens : Exists(k[2]) /\ users[k[2]].by = k[1]
=============================================================================
