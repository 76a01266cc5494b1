---------------------------- MODULE StorageRepo ----------------------------
(***************************************************************************)
(* The MongoDB collection "storage": one document per file, folder or      *)
(* thumbnail, with the queries and the one-document writes that            *)
(* infrastructure/db/storage_repo.rs makes of it, and the unique partial   *)
(* index of infrastructure/db/mod.rs.                                      *)
(*                                                                         *)
(* MongoDB applies a write of ONE document atomically.  update_many and    *)
(* delete_many visit their documents one after the other: the modules that *)
(* use this one write a single document per step.  A query is one step.    *)
(*                                                                         *)
(* parentId is a string.  The handlers accept an id in any spelling         *)
(* (ObjectId::parse_str), store the string they were given, and compare it  *)
(* as it is in every query, while the collection of a subtree asks for the  *)
(* spelling of to_hex.  A document therefore has its parent's id and how    *)
(* that is spelled.                                                        *)
(*                                                                         *)
(* Kept of a document: what the handlers branch on.  Left out: the display *)
(* data (base and extension name, mime type, size, timestamps), the        *)
(* version of the download tokens, and the fields of the legacy format.    *)
(***************************************************************************)
EXTENDS FiniteSets

CONSTANTS
    Users,      \* accounts; every document belongs to one
    Ids,        \* object ids; one is never given out twice
    Names,      \* folder names that the unique index tells apart
    NoName,     \* the name of a file or thumbnail: never compared
    Hashes,     \* SHA-256 content hashes
    NoHash,     \* a folder has no content
    Root,       \* parentId "root"
    Spellings,  \* of an id in hexadecimal: in lower case, or not
    Canonical,  \* the one of to_hex
    NoId,       \* an absent thumbnail id
    Unborn,     \* docs[i] when i has not been given out
    Gone,       \* docs[i] when the document was deleted
    Seeded      \* docs[i] when a run starts

VARIABLE docs   \* the collection: id -> document, Unborn or Gone

Types == {"file", "folder", "thumbnail"}

Doc == [type : Types, user : Users, name : Names \cup {NoName},
        parent : Ids \cup {Root}, spelling : Spellings,
        hash : Hashes \cup {NoHash}, thumb : Ids \cup {NoId},
        trashed : BOOLEAN]

ASSUME MarkerAssumption ==
    /\ Unborn # Gone /\ Unborn \notin Doc /\ Gone \notin Doc
    /\ Root \notin Ids /\ NoId \notin Ids /\ NoHash \notin Hashes

ASSUME SpellingAssumption == Canonical \in Spellings

ASSUME SeedAssumption == Seeded \in [Ids -> Doc \cup {Unborn, Gone}]

Exists(i) == docs[i] \notin {Unborn, Gone}

Owned(i, u) == Exists(i) /\ docs[i].user = u

UnbornIds == {i \in Ids : docs[i] = Unborn}

\* "root" can be written in one way only
SpellingsOf(p) == IF p = Root THEN {Canonical} ELSE Spellings

\* find_many_by_parent_ids, which is given the ids as to_hex spells them:
\* trashed or not, of any type
ChildrenOf(S, u) ==
    {i \in Ids : /\ Owned(i, u)
                 /\ docs[i].parent \in S /\ docs[i].spelling = Canonical}

\* find_many({userId, trashed: true})
TrashedBy(u) == {i \in Ids : Owned(i, u) /\ docs[i].trashed}

\* count_by_user_content_hash: a trashed document still refers to its content
References(u, h) == {i \in Ids : Owned(i, u) /\ docs[i].hash = h}

ActiveFolder(p, u) ==
    Owned(p, u) /\ docs[p].type = "folder" /\ ~docs[p].trashed

\* mutation of ValidParent: any document will do
AnyParent(p, u) == p = Root \/ (p \in Ids /\ Exists(p))

\* validate_parent without an item: root, or one read of the parent
ValidParent(p, u) == p = Root \/ (p \in Ids /\ ActiveFolder(p, u))

\* the find_one of the upload's deduplication
SameUpload(u, p, s, h) ==
    {i \in References(u, h) : /\ docs[i].parent = p /\ docs[i].spelling = s
                              /\ docs[i].type = "file"
                              /\ ~docs[i].trashed}

\* the find_one of create_folder
SameFolder(u, p, s, n) ==
    {i \in Ids : /\ ActiveFolder(i, u) /\ docs[i].name = n
                 /\ docs[i].parent = p /\ docs[i].spelling = s}

\* storage_active_folder_name_unique lets d be written as document i
IndexAllows(i, d) ==
    (d.type = "folder" /\ ~d.trashed)
        => SameFolder(d.user, d.parent, d.spelling, d.name) \subseteq {i}

\* insert_one
Insert(i, d) == docs[i] = Unborn /\ docs' = [docs EXCEPT ![i] = d]

\* one document of a $set
Put(i, d) == Exists(i) /\ docs' = [docs EXCEPT ![i] = d]

\* one document of a delete
Erase(i) == docs' = [docs EXCEPT ![i] = Gone]
=============================================================================
