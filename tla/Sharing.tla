------------------------------ MODULE Sharing ------------------------------
(***************************************************************************)
(* Download links: the requests that hand them out (a listing, a download  *)
(* URL), revoke them and stream a file to whoever holds one.               *)
(*                                                                         *)
(* A link is a signed token that carries the share version its file had    *)
(* when it was read; revoking increments the version in the collection.    *)
(* Nothing is locked: a download reads the document twice, for the version *)
(* and for the content, and a listing signs what it has read before.       *)
(* A request that makes one call of the database is one step.              *)
(*                                                                         *)
(* A document of the legacy format has no content hash but an MD5 and an   *)
(* iv, which never change.  Its object has the MD5 for its name, is shared *)
(* by all users, and is never written; a download reads all of it and      *)
(* compares the MD5 before the first byte is sent.  Whether the object is  *)
(* whole and what the iv makes of it is left open.  A content, its SHA-256 *)
(* and its MD5 are one model value.                                        *)
(*                                                                         *)
(* Uploads, emptyings, the requests on the tree and the migration appear   *)
(* as what they do to one document or one object.                          *)
(***************************************************************************)
EXTENDS StorageRepo, Naturals

CONSTANTS
    Fetches,    \* slots for concurrent downloads
    Listings,   \* slots for concurrent listings
    Free,       \* a slot without a request
    Md5,        \* id -> its legacy MD5, or NoHash
    Legacy,     \* id -> what the legacy object of its MD5 may decrypt to with
                \* its iv: nothing if there is no such object
    Garbled,    \* bytes that have the hash of no content
    MaxVersion, \* i32::MAX
    MaxLinks    \* BOUND: links held by clients at a time

VARIABLES
    version,    \* id -> shareVersion
    objects,    \* <<user, hash>> pairs whose object is in the directory
    links,      \* the download links in clients' hands that have not expired
    fetch,      \* slot -> download in progress
    listing     \* slot -> listing in progress

vars == <<docs, version, objects, links, fetch, listing>>

\* MaxVersion + 1 stands for every value that $inc makes of i32::MAX: MongoDB
\* then stores 64 bits, which do not deserialise into an i32
Versions == 0 .. MaxVersion + 1

Objects == Users \X Hashes

Link == [user : Users, file : Ids,
         version : Versions,    \* share_version of the claims
         since : Versions]      \* history: the file's version when the
                                \* request for the link arrived

FetchReq == [pc : {"check", "load", "open", "legacy", "stream"},
             user : Users, file : Ids,
             link : BOOLEAN,        \* purpose is Download
             version : Versions,
             asked : Versions,      \* history: the version on arrival
             owner : Users,         \* item.user_id
             hash : Hashes \cup {NoHash},   \* content_hash, or md5_hash
             data : Hashes \cup {Garbled, NoHash}]  \* what is streamed

ListReq == [pc : {"page", "thumbs"}, user : Users,
            since : [Ids -> Versions],      \* history: versions on arrival
            links : SUBSET Link,            \* of the files on the page
            thumbs : SUBSET Ids]            \* thumb_ids

ASSUME VersionAssumption == MaxVersion \in Nat /\ MaxLinks \in Nat

\* A run starts with thumbnails that are, or were, their files' users'.
ASSUME SeedThumbAssumption ==
    \A i \in Ids :
        (Seeded[i] \notin {Unborn, Gone} /\ Seeded[i].thumb # NoId) =>
            LET th == Seeded[i].thumb IN
            /\ Seeded[th] # Unborn
            /\ Seeded[th] # Gone => Seeded[th].user = Seeded[i].user

\* Legacy documents are files and thumbnails from before the server; some may
\* have been migrated.
ASSUME LegacyAssumption ==
    /\ Garbled \notin Hashes \cup {NoHash}
    /\ Md5 \in [Ids -> Hashes \cup {NoHash}]
    /\ Legacy \in [Ids -> SUBSET (Hashes \cup {Garbled})]
    /\ \A i \in Ids :
          \/ Md5[i] = NoHash
          \/ /\ Seeded[i] \notin {Unborn, Gone}
             /\ Seeded[i].type # "folder"
             /\ Seeded[i].hash \in {Md5[i], NoHash}

ASSUME FreeAssumption == Free \notin FetchReq /\ Free \notin ListReq

FetchAt(d, pc) == fetch[d] # Free /\ fetch[d].pc = pc
ListingAt(l, pc) == listing[l] # Free /\ listing[l].pc = pc

Born == {i \in Ids : docs[i] # Unborn}

\* A query that returns the document succeeds.
Readable(i) == version[i] <= MaxVersion

LinkTo(u, i, v, s) == [user |-> u, file |-> i, version |-> v, since |-> s]

\* BOUND: of the links that are handed out, those that clients keep
HandOut(L) ==
    /\ \E K \in SUBSET L : links' = links \cup K
    /\ Cardinality(links') <= MaxLinks

-----------------------------------------------------------------------------
(* Handing out and revoking links                                          *)

\* get_download_url
GetDownloadUrl(u, i) ==
    /\ Owned(i, u) /\ Readable(i) /\ ~docs[i].trashed
    /\ docs[i].type \in {"file", "thumbnail"}
    /\ HandOut({LinkTo(u, i, version[i], version[i])})
    /\ UNCHANGED <<docs, version, objects, fetch, listing>>

StartListing(l) ==
    /\ listing[l] = Free
    /\ \E u \in Users :
          listing' = [listing EXCEPT ![l] =
              [pc |-> "page", user |-> u, since |-> version,
               links |-> {}, thumbs |-> {}]]
    /\ UNCHANGED <<docs, version, objects, links, fetch>>

AnswerListing(l) == listing' = [listing EXCEPT ![l] = Free]

Listed(u) == {i \in Ids : /\ Owned(i, u) /\ ~docs[i].trashed
                          /\ docs[i].type \in {"file", "folder"}}

\* The page: whatever filter, order, limit and number were asked for.  One
\* document that does not deserialise fails the whole query.
QueryPage(l) ==
    /\ ListingAt(l, "page")
    /\ LET u == listing[l].user IN
       \E S \in SUBSET Listed(u) :
          LET files == {LinkTo(u, i, version[i], listing[l].since[i]) :
                           i \in {j \in S : docs[j].type = "file"}}
              ths   == {docs[i].thumb : i \in S} \ {NoId}
          IN \/ /\ \E i \in S : ~Readable(i)
                /\ AnswerListing(l) /\ UNCHANGED links
             \/ /\ \A i \in S : Readable(i)
                /\ ths = {}
                /\ AnswerListing(l) /\ HandOut(files)
             \/ /\ \A i \in S : Readable(i)
                /\ ths # {}
                /\ listing' = [listing EXCEPT ![l].pc = "thumbs",
                                              ![l].links = files,
                                              ![l].thumbs = ths]
                /\ UNCHANGED links
    /\ UNCHANGED <<docs, version, objects, fetch>>

\* mutation of ThumbVersion: the thumbnail's version is not looked up
ThumbVersionZero(u, i) == 0

\* thumb_share_versions, with its default
ThumbVersion(u, i) == IF Owned(i, u) THEN version[i] ELSE 0

\* from_storage_with_urls
ThumbLinks(l) ==
    {LinkTo(listing[l].user, i, ThumbVersion(listing[l].user, i),
            listing[l].since[i]) : i \in listing[l].thumbs}

QueryThumbs(l) ==
    /\ ListingAt(l, "thumbs")
    /\ IF \E i \in listing[l].thumbs :
             Owned(i, listing[l].user) /\ ~Readable(i)
       THEN UNCHANGED links
       ELSE HandOut(listing[l].links \cup ThumbLinks(l))
    /\ AnswerListing(l)
    /\ UNCHANGED <<docs, version, objects, fetch>>

\* BOUND: the versions beyond i32::MAX are not told apart.
Incremented(v) == IF v > MaxVersion THEN v ELSE v + 1

\* revoke_share, of any document, active or not
RevokeShare(u, i) ==
    /\ Owned(i, u)
    /\ version' = [version EXCEPT ![i] = Incremented(@)]
    /\ UNCHANGED <<docs, objects, links, fetch, listing>>

\* the clock passes exp, or the client loses the link
Expire ==
    /\ \E k \in links : links' = links \ {k}
    /\ UNCHANGED <<docs, version, objects, fetch, listing>>

-----------------------------------------------------------------------------
(* get_file                                                                *)

StartFetch(d) ==
    /\ fetch[d] = Free
    /\ \/ \E k \in links :
             fetch' = [fetch EXCEPT ![d] =
                 [pc |-> "check", user |-> k.user, file |-> k.file,
                  link |-> TRUE, version |-> k.version,
                  asked |-> version[k.file],
                  owner |-> k.user, hash |-> NoHash, data |-> NoHash]]
       \/ \E u \in Users, i \in Born :
             fetch' = [fetch EXCEPT ![d] =
                 [pc |-> "load", user |-> u, file |-> i, link |-> FALSE,
                  version |-> 0, asked |-> 0,
                  owner |-> u, hash |-> NoHash, data |-> NoHash]]
    /\ UNCHANGED <<docs, version, objects, links, listing>>

AnswerFetch(d) == fetch' = [fetch EXCEPT ![d] = Free]

\* mutation of Unrevoked: a version that is too old will do
UnrevokedOld(d) == fetch[d].version <= version[fetch[d].file]

Unrevoked(d) == fetch[d].version = version[fetch[d].file]

\* the first read of the document
CheckVersion(d) ==
    /\ FetchAt(d, "check")
    /\ LET i == fetch[d].file IN
       IF Exists(i) /\ Readable(i) /\ Unrevoked(d)
       THEN fetch' = [fetch EXCEPT ![d].pc = "load"]
       ELSE AnswerFetch(d)
    /\ UNCHANGED <<docs, version, objects, links, listing>>

MayRead(d) ==
    Owned(fetch[d].file, fetch[d].user) /\ ~docs[fetch[d].file].trashed

\* what document d names: its content_hash, and md5_hash where it has none
ContentName(i) == IF docs[i].hash # NoHash THEN docs[i].hash ELSE Md5[i]

\* mutation of HasContent: not looked at
HasContentAny(i) == TRUE

\* a folder has neither
HasContent(i) == ContentName(i) # NoHash

\* stream_file_content, the second read
LoadContent(d) ==
    /\ FetchAt(d, "load")
    /\ LET i == fetch[d].file IN
       IF MayRead(d) /\ Readable(i) /\ HasContent(i)
       THEN fetch' = [fetch EXCEPT
                ![d].pc = IF docs[i].hash # NoHash THEN "open" ELSE "legacy",
                ![d].owner = docs[i].user,
                ![d].hash = ContentName(i)]
       ELSE AnswerFetch(d)
    /\ UNCHANGED <<docs, version, objects, links, listing>>

\* stream_content up to its first chunk; from then on the open file is read,
\* whatever is done to its name
Open(d) ==
    /\ FetchAt(d, "open")
    /\ IF <<fetch[d].owner, fetch[d].hash>> \in objects
       THEN fetch' = [fetch EXCEPT ![d].pc = "stream",
                                   ![d].data = fetch[d].hash]
       ELSE AnswerFetch(d)
    /\ UNCHANGED <<docs, version, objects, links, listing>>

\* mutation of Intact: the MD5 is not compared
IntactNot(d, data) == TRUE

\* what the legacy object decrypts to has the MD5
Intact(d, data) == data = fetch[d].hash

\* LegacyReader::fetch, all of the object at once, and the comparison
ReadLegacy(d) ==
    /\ FetchAt(d, "legacy")
    /\ \/ Legacy[fetch[d].file] = {} /\ AnswerFetch(d)
       \/ \E data \in Legacy[fetch[d].file] :
             IF Intact(d, data)
             THEN fetch' = [fetch EXCEPT ![d].pc = "stream", ![d].data = data]
             ELSE AnswerFetch(d)
    /\ UNCHANGED <<docs, version, objects, links, listing>>

\* the last chunk; or an error, or the client hangs up
EndFetch(d) ==
    /\ fetch[d] # Free
    /\ AnswerFetch(d)
    /\ UNCHANGED <<docs, version, objects, links, listing>>

EndListing(l) ==
    /\ listing[l] # Free
    /\ AnswerListing(l)
    /\ UNCHANGED <<docs, version, objects, links, fetch>>

-----------------------------------------------------------------------------
(* What the other requests do to a document or an object                   *)

\* a thumbnail, or a file that may have one
Upload(i) ==
    /\ \E u \in Users, h \in Hashes, ty \in {"file", "thumbnail"},
          th \in Ids \cup {NoId} :
          /\ th # NoId =>
                /\ ty = "file" /\ docs[th] # Unborn
                /\ Exists(th) => Owned(th, u) /\ docs[th].type = "thumbnail"
          /\ Insert(i, [type |-> ty, user |-> u, name |-> NoName,
                        parent |-> Root, spelling |-> Canonical, hash |-> h,
                        thumb |-> th, trashed |-> FALSE])
          /\ objects' = objects \cup {<<u, h>>}
    /\ UNCHANGED <<version, links, fetch, listing>>

CreateFolder(i) ==
    /\ \E u \in Users :
          Insert(i, [type |-> "folder", user |-> u, name |-> NoName,
                     parent |-> Root, spelling |-> Canonical,
                     hash |-> NoHash, thumb |-> NoId, trashed |-> FALSE])
    /\ UNCHANGED <<version, objects, links, fetch, listing>>

\* remove or restore, one document
Retrash(i) ==
    /\ Exists(i)
    /\ Put(i, [docs[i] EXCEPT !.trashed = ~@])
    /\ UNCHANGED <<version, objects, links, fetch, listing>>

\* an emptying deletes also what was restored since it listed it
Purge(i) ==
    /\ Exists(i)
    /\ Erase(i)
    /\ UNCHANGED <<version, objects, links, fetch, listing>>

Unlink(o) ==
    /\ o \in objects /\ References(o[1], o[2]) = {}
    /\ objects' = objects \ {o}
    /\ UNCHANGED <<docs, version, links, fetch, listing>>

\* The migration finds the legacy object of document i whole and stores it
\* for its user, also when the document is deleted meanwhile.
StoreLegacy(i) ==
    /\ Md5[i] # NoHash /\ Md5[i] \in Legacy[i]
    /\ objects' = objects \cup {<<Seeded[i].user, Md5[i]>>}
    /\ UNCHANGED <<docs, version, links, fetch, listing>>

\* update_many_by_md5, one document, once its content was found whole with
\* the iv of some document k; the object may have been swept away since
Migrate(i) ==
    /\ Exists(i) /\ Md5[i] # NoHash
    /\ \E k \in Ids : /\ Md5[k] \in Legacy[k] /\ Md5[k] = Md5[i]
                      /\ Seeded[k].user = docs[i].user
    /\ Put(i, [docs[i] EXCEPT !.hash = Md5[i]])
    /\ UNCHANGED <<version, objects, links, fetch, listing>>

-----------------------------------------------------------------------------
Init ==
    /\ docs = Seeded
    /\ version = [i \in Ids |-> 0]
    /\ objects = {o \in Objects : References(o[1], o[2]) # {}}
    /\ links = {}
    /\ fetch = [d \in Fetches |-> Free]
    /\ listing = [l \in Listings |-> Free]

FetchStep(d) ==
    CheckVersion(d) \/ LoadContent(d) \/ Open(d) \/ ReadLegacy(d)

Next ==
    \/ \E u \in Users, i \in Ids : GetDownloadUrl(u, i) \/ RevokeShare(u, i)
    \/ \E l \in Listings : \/ StartListing(l) \/ QueryPage(l)
                           \/ QueryThumbs(l) \/ EndListing(l)
    \/ Expire
    \/ \E d \in Fetches : StartFetch(d) \/ FetchStep(d) \/ EndFetch(d)
    \/ \E i \in Ids : \/ Upload(i) \/ CreateFolder(i) \/ Retrash(i)
                     \/ Purge(i) \/ StoreLegacy(i) \/ Migrate(i)
    \/ \E o \in Objects : Unlink(o)

Spec == Init /\ [][Next]_vars

-----------------------------------------------------------------------------
(* Properties                                                              *)

\* Every variable has its type, and a download that has no link to check
\* never waits for the check.
TypeOK ==
    /\ docs \in [Ids -> Doc \cup {Unborn, Gone}]
    /\ version \in [Ids -> Versions]
    /\ objects \subseteq Objects
    /\ links \subseteq Link
    /\ fetch \in [Fetches -> FetchReq \cup {Free}]
    /\ listing \in [Listings -> ListReq \cup {Free}]
    /\ \A d \in Fetches :
          fetch[d] # Free =>
              /\ fetch[d].pc = "check" => fetch[d].link
              /\ fetch[d].pc \in {"open", "legacy", "stream"} =>
                    fetch[d].hash # NoHash

\* Once a revocation has been answered, no download that arrives later with
\* an older link gets past the check, however the revocations before and
\* after it interleave with the two reads, and also when the count of
\* revocations leaves the range of an i32 (get_file:521,
\* increment_share_version).
RevokedLinkServesNothing ==
    \A d \in Fetches :
        (fetch[d] # Free /\ fetch[d].link /\ fetch[d].pc # "check")
            => fetch[d].version >= fetch[d].asked

\* A link is not dead on arrival: it carries a version its file had after the
\* link was asked for, though a listing reads the thumbnails' versions in a
\* second query and has a default for those it does not find; and it carries
\* no version that its file has yet to reach, which would outlive a
\* revocation (get_files:380-404, from_storage_with_urls:161-193).
LinksAreCurrent ==
    \A k \in links :
        Exists(k.file) => /\ k.since <= k.version
                          /\ k.version <= version[k.file]

\* Whoever asks with whatever token: what is streamed is what the named file
\* of the user who issued the token names, whether it is read from that
\* user's directory or from a legacy object that all users share -- also when
\* that object is torn, belongs with another document's iv or is migrated
\* between the two reads, and when the file is trashed, deleted and its
\* content unlinked meanwhile (stream_file_content:468-507).
OwnContentOnly ==
    \A d \in Fetches :
        FetchAt(d, "stream") =>
            /\ fetch[d].owner = fetch[d].user
            /\ fetch[d].data = fetch[d].hash
            /\ Exists(fetch[d].file) =>
                  /\ docs[fetch[d].file].user = fetch[d].user
                  /\ ContentName(fetch[d].file) = fetch[d].data
=============================================================================
