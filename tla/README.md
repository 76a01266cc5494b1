# Fragrans: formal models of the storage service

Fragrans is a file-storage server: an axum application on the tokio runtime
that keeps one MongoDB collection of documents (files, folders, thumbnails) and
one directory of encrypted content objects, named by user and SHA-256 of the
content. This directory holds TLA+ models of its storage service, the TLC
configurations that check them on small instances, and TLAPS proofs of the
results that matter most. Paths below are relative to the repository;
`service/storage.rs:744` stands for line 744 of `src/service/storage.rs`.

## 1. Inventory

| Part | State | Operations | Model |
| --- | --- | --- | --- |
| Document collection (`infrastructure/db/storage_repo.rs`, `db/mod.rs`) | the documents with their share versions; a unique partial index over active folders' (user, parent, name) | queries, one-document writes, `update_many`, `delete_many` | `StorageRepo`, `Sharing` (partly) |
| Uploads and content objects (`StorageService::upload_file_chunk`, `infrastructure/storage/local.rs`) | the objects in the directory; the locals of a running upload | validate, deduplicate, look for the objects, store, insert, roll back | `Contents` |
| Emptying the trash (`StorageService::empty_trash`) | the locals of a running sweep | list, delete, count references, remove objects | `Contents` |
| Folder tree (`create_folder`, `move_file`, `update_file`, `remove_file`, `restore_file`, `restore_trashed_files`, `get_path`) | the parents with their spelling, names and trashed flags; the locals of a running request | as named | `Tree` |
| The storage service as a whole | all of the above | all of the above | `StorageServer` |
| Sharing and download (`api/storage.rs:380-563`, `stream_file_content`) | `shareVersion` of a file; signed download tokens in clients' hands | make a link, revoke, stream, legacy objects included | `Sharing` |
| Listing (`get_files`) | the links it signs | two queries and the links | `Sharing` (partly) |
| Object format (`local.rs`: header, chunks with nonces that are the header's XORed with the chunk's index, rename, fsync) | the inodes and names of the directory | write, read, remove, power loss | `ObjectStore`, `Objects` |
| Legacy objects and migration (`bin/migrate_storage_v1.rs`) | MD5-named objects; the list of a run | re-encrypt, verify, update documents | `Migration` |
| Accounts (`api/users.rs`, `api/middleware.rs`, `db/user_repo.rs`) | users, access tokens | register, login, profile, password | `Accounts` |
| Upload request parsing (`api/storage.rs:173-319`) | temporary file of a part | read fields, enforce limits | not modelled |
| Thumbnails, configuration, router, errors, utilities | none | pure | not modelled |

**How the parts interact.** Every HTTP request is a task of its own that calls
one method of `StorageService` or works on the accounts; a method is a sequence
of awaits on MongoDB and on the file system. There is no lock, no transaction
and no retry in the program: what two requests share is the collections and the
directory, and between any two awaits of one request every other may run. A
content object is shared by all documents of one user with that content; its
life is decided by three places that do not know of each other: an upload that
finds it or stores it (`service/storage.rs:288`, `:384`), documents that refer
to it, and a sweep that counts the references and unlinks it (`:743-752`). The
migration is a second process, which adds a fourth: it stores an object, reads
it back and then refers to it (`migrate_storage_v1.rs:102`). A download link is
a signed token; the only state that can revoke it is the version of its file.

**What is hard.** (a) The check-then-act sequences: exists/store/insert against
delete/count/unlink, look-up/insert, validate/write, walk/write, collect/write,
read-the-version/stream, read-the-list/migrate, find/insert of an account.
(b) Partial failure: an insert that fails after its contents were stored, an
`update_many` that meets the unique index half-way, a client that hangs up (the
handler is dropped at an await), a server or a migration that stops, a power
loss between a rename and the disk. (c) Loops whose end depends on a tree that
others rewrite: the cycle check, `get_path`, the collection of a subtree.
(d) Sharing: one object for many documents, one user's objects apart from
another's, one legacy object for the documents of many users. (e) Boundaries:
contents of a multiple of the chunk size, versions past `i32::MAX`.
(f) Identity: a parent is stored as the string the client sent, and an account's
address in the case it was typed in, and both are compared as they are.

**What makes the parts correct.**

* *Contents*: a document's content is there as long as the document is; a
  content that nobody refers to any more goes away; users do not affect each
  other's contents.
* *Tree*: it stays a tree; a parent is an own folder; active documents are not
  inside trashed folders, however a client spells the folder's id; a restore is whole; a thumbnail follows its file;
  every request ends.
* *Service*: all of that with every request running at once.
* *Sharing*: a revoked link serves nothing; a link is neither dead nor good for
  versions to come; what is streamed is what the named file names, legacy
  objects included.
* *Objects*: an object is there as a whole or not at all, and whoever has
  opened one reads it to the end.
* *Migration*: what could be read reads the same; only verified contents are
  stored; a run that counts no failure leaves nothing to migrate.
* *Accounts*: one account per address, whatever its case; a token opens its
  registrant's account.

Every hazard is listed in `PROJECT.json` at the line where it bites, with the
properties that cover it or the reason why none does.

## 2. Modules

| Module | Contents |
| --- | --- |
| `StorageRepo` | The collection: documents as records, the queries and one-document writes, the unique index. |
| `Contents` | Uploads and sweeps over the documents and the objects. Requests on the tree appear as edits of one document (`TreeEdit`). |
| `Tree` | The requests on the tree over the documents. Uploads and sweeps appear as what they do to the collection (`TrashStep`). |
| `StorageServer` | Both over one collection. `ContentsSpec` and `TreeSpec` say that it implements each of them. |
| `Sharing` | Listings, download URLs, revocations and downloads over documents, versions and objects. Everything else is what it does to one document or object. |
| `ObjectStore` | What the directory of objects promises: put, remove, open, read to the end, and what a power loss may undo. |
| `Objects` | `LocalStorage` chunk by chunk: temporary files, sync, rename, readers on open files, unlinks, power losses. `ObjectStoreSpec` says that it implements `ObjectStore`. |
| `Migration` | A run of the migration call by call, killed and repeated, beside uploads, new folders and sweeps. |
| `Accounts` | Registrations and logins await by await; changes of passwords and profiles; tokens. |
| `ContentsProofs`, `TreeProofs`, `TreeSerialProofs`, `ServerProofs`, `SharingProofs`, `ObjectsProofs`, `MigrationProofs`, `AccountsProofs` | TLAPS proofs about the module each of them extends (section 4). |
| `MCContents`, `MCTree`, `MCStorageServer`, `MCSharing`, `MCObjects`, `MCMigration`, `MCAccounts` | Instances for TLC: the documents a run starts with, symmetry. |

`Contents` and `Tree` are assume-guarantee halves of one program. Each has the
other's handlers replaced by an abstract environment (`TreeEdit` in `Contents`;
`Uploaded`, `ListTrash`, `Purge`, `StopPurge`, `TakenBack` in `Tree`), and
`StorageServer`, which has all handlers in full, is shown to implement both:
`Contents` with the identity on its variables, `Tree` with `purging`, the
documents listed by some sweep and not yet deleted, computed from the sweeps.
So a safety result about either half is one about the service, and each half
can be checked and proved for itself. That it implements them is checked by the
run `server` and proved for any number of requests (`ServerProofs`).

`Contents`, `Sharing` and `Migration` take an object of the directory as there
or not there. `Objects` is why they may: it implements `ObjectStore`, in which
an object appears and disappears at once.

### From code to model

* **A step is what a handler does from one await to the next.** A request's
  locals live in a record of its slot (`upload`, `sweep`, `task`); `pc` names
  the await it is at. Computation between awaits belongs to the step of the
  await before it. Guards are the code's conditions and early returns.
* **A query is one step, a write of one document is one step.** `update_many`
  and `delete_many` are one step per document, in any order, as MongoDB applies
  them. The collection of a subtree is one step per round
  (`collect_related_item_ids` asks for the children of the whole frontier).
* **Storing an object is one step** in `Contents`, `Sharing` and `Migration`:
  `store_from_file` writes a temporary file and renames it, and `Objects`, which
  has every chunk of it, shows that nothing else can be told from outside.
  Removing is two: the test that the file exists, then the unlink, which fails
  when another sweep has been quicker.
* **Failures.** `UploadCut`, `SweepCut` and `Cut` end a request at any await:
  the database or the disk returns an error, the client hangs up, or the server
  stops, which is all requests being cut. Nothing is undone, as in the code.
  `InsertFileFails` is the one failure the code handles, with `Rollback`.
* **Data.** A content is its hash; whether a declared image decodes
  (`Pictures`) and the hash of its thumbnail (`ThumbOf`) are constants; names
  matter only for folders, where the index tells them apart. The client chooses
  the content type, so `image` is free.
* **Ids** are never given out twice: a document is `Unborn`, a record, or
  `Gone`. A client may name any id that was ever given out, of any owner.
* **Parent ids are strings.** Handlers accept any hexadecimal spelling of an id
  (`ObjectId::parse_str`, `service/storage.rs:52`) and store what they were sent
  (`:237`, `:321`, `:363`, `:529`). Whatever parses the stored string again (the walks,
  the checks of a restore) finds the folder; whatever compares strings does not:
  the collection of a subtree asks for the lower-case `to_hex` (`:115`), and the
  look-ups of a create (`:199`) and of an upload (`:271`) and the unique index
  take two spellings of a folder for two. A document therefore has a `parent`,
  the id, and a `spelling` of it; a request has the spelling the client has
  chosen; `ChildrenOf` returns what is spelled `Canonical`, and `SameFolder` and
  `SameUpload` compare both. `Spellings` may be any set with `Canonical` in it.
* **Chunks.** In `Objects` a chunk is what its encryption binds it to (path,
  header, index, length): it decrypts exactly where all of these agree. A rename
  and an unlink are not followed by an fsync of the directory, so that after a
  power loss a path may have any of the inodes it has had since (`durable`); a
  file that was not synced has lost its chunks by then.
* **Tokens.** A signed token is the record of its claims; nobody has one that
  was not signed. `Sharing` lets `$inc` take a version past `i32::MAX`, where it
  no longer deserialises and no query that would return the document succeeds.
* **Legacy objects** have an MD5 for their name and are good, torn or missing
  from the start; an iv fits or does not. In `Sharing` a document has the MD5
  `Md5[i]` and `Legacy[i]`, the contents its object may decrypt to with its iv,
  of which a read gets any (in the program, the same one each time); `LoadContent`
  goes to `open` with a content hash and to `legacy` without one, where the
  whole object is read and its MD5 compared before anything is streamed
  (`ReadLegacy`, `Intact`; `service/storage.rs:482-504`). `StoreLegacy` and
  `Migrate` are what a migration does meanwhile.
* **Addresses** of accounts are compared as they are written: `api/users.rs:79`
  and `:128`, `user_repo.rs:22` and the unique index lower-case none, so that two
  spellings of an address are two elements of `Emails`.

History variables, which no action reads, record the circumstances the
properties except: in `Contents` `raced` (objects an upload relied on while a
sweep was between its count and its unlink) and `faulted` (users one of whose
requests was cut short), in `Tree` `movesRaced` (users two of whose folder moves
overlapped) and `disturbed` (users two of whose requests overlapped or were left
half-way; also those whose seed documents are not what requests that run one at
a time leave, `Settled`), in `Migration` `raced` (objects that came to be referred to between a
sweep's count and its unlink, or were unlinked between the migration's reading
back and its update). Others remember what a property compares with: the version
a link's file had when the link was asked for (`since`, `asked`), who registered
an account (`by`), how a run ended (`exit`). An exception is always named by the
step of the code that causes it; a `violation` run, or the list of divergences in
section 3, shows that it is needed.

### Simplifications

* A multipart request with several files is a sequence of uploads.
* An insert that MongoDB applied but reported as failed is not modelled; the
  driver's retryable writes make it an insert that succeeded.
* In `restore_trashed_files` a parent shared by several roots is read once.
* The `$set` of a move or restore also sets `updatedAt`; it is left out, as are
  the fields that are only displayed.
* A page of a listing is any part of what may be listed: filters, order, skip
  and limit choose one, and no property depends on which.
* A request that makes one call of the database is one step of `Sharing` or
  `Accounts`.

## 3. Checks

Run with `tlc -workers 2 -config <cfg> <module>`. Times are for two workers.

| Run | Configuration | Properties | Distinct states | Time |
| --- | --- | --- | --- | --- |
| contents_uploads | `MCContentsUploads` | `TypeOK`, `ContentKept`, `NoLeak`, `OrphansCollected` | 119 000 | 25 s |
| tree_serial | `MCTreeSerial` | `TypeOK`, `SerialTreeSound`, `RestoreIsWhole`, `ThumbnailFollows` | 300 000 | 95 s |
| tree_live | `MCTreeLive` | `AcyclicUnlessRaced`, `WalksEnd`, `CollectEnds` | 57 000 | 25 s |
| server | `MCStorageServer` | `ContentsSpec`, `TreeSpec` | 261 000 | 90 s |
| sharing | `MCSharing` | `TypeOK`, `RevokedLinkServesNothing`, `LinksAreCurrent`, `OwnContentOnly` | 3 130 000 | 120 s |
| objects | `MCObjects` | `TypeOK`, `PublishedIsWhole`, `ObjectStoreSpec` | 309 000 | 110 s |
| migration | `MCMigration` | `TypeOK`, `MigratedIsVerified`, `DoneIsDone`, `ReadsTheSame` | 4 500 000 | 130 s |
| accounts | `MCAccounts` | `TypeOK`, `OwnAccountsOnly` | 209 000 | 12 s |
| contents_gc | `MCContentsGc` | `GcOnlyOrphans`: violated | | |
| tree_cycles | `MCTreeCycles` | `NoCycles`: violated | | |
| server_reread | `MCStorageServerReread` | `RestoreRereads`: violated | | |
| migration_folders | `MCMigrationFolders` | `ApplyExitsZero`: violated | | |

### What the properties say

* `ContentKept`: whatever the interleaving, a document's object is in the
  directory, trashed or not -- unless an upload relied on the object between a
  sweep's count and its unlink.
* `NoLeak`: an object without a document is still in the hands of some request:
  an upload that will insert, or a sweep that will look at its hash. Only a
  request cut short leaves an object for good. This covers two sweeps of one
  user that find each other's work done, and the sweep that lists a hash just
  as an upload deduplicates against it.
* `OrphansCollected`: and under fairness it does go away.
* `AcyclicUnlessRaced`: the cycle check, which reads one ancestor per await,
  keeps a user's documents acyclic against any other request, renames and moves
  of files included, except for another overlapping move of a folder.
* `SerialTreeSound`: with one request at a time, whatever the order of
  creates, moves, removes, restores, uploads and emptyings, an active file or
  folder sits in an active folder -- unless it stores the folder's id in another
  spelling than `to_hex`'s, which is the code's own gap (see Violations). That a
  document so spelled does no harm to others is part of the property.
* `RestoreIsWhole`: a restore brings back everything below its folder to which
  parents lead that are spelled as `to_hex` does.
* `ThumbnailFollows`: with one request at a time, the thumbnail of an active
  file is not in the trash, whether the file, its folder or a batch was removed
  or restored. The exception is part of the code: `move_file` leaves the
  thumbnail's parent as it was, in place and in spelling, and removing the
  former folder takes it along.
* `WalksEnd`, `CollectEnds`: the loops end; the collection of a subtree only
  if the folders have no cycle and are not moved for ever, since it keeps no
  set of documents seen.
* `ContentsSpec`, `TreeSpec`: the service, with all handlers in full over one
  collection, implements each half.
* `RevokedLinkServesNothing`: a download that arrives after a revocation with a
  link from before it is refused, though the version is read in one await and
  the document again in another, and though the count may leave an `i32`.
* `LinksAreCurrent`: a link handed out carries a version that its file had
  between the request and now -- also a thumbnail's, whose version comes from a
  second query, or is 0 if that does not find it.
* `OwnContentOnly`: what is streamed is what the named file of the asking user
  names, from that user's directory or from the legacy object that all users
  with its MD5 share -- though the object may be torn or encrypted with another
  document's iv, and the file may be migrated, trashed, deleted and swept
  between the reads.
* `PublishedIsWhole`: a path names a whole object of its content, never part of
  one, for contents of every length around the chunk size, with writers that
  fail, are dropped or race, and after power losses.
* `ObjectStoreSpec`: an object appears and disappears at once; a read that has
  opened its file gets all of the content and no error.
* `ReadsTheSame`: no step of the migration, nor of the server beside it,
  changes what a document that can be read yields -- unless its content was
  being swept away as it came to be referred to.
* `MigratedIsVerified`: a torn object, or one decrypted with another's iv, is
  never stored for a document, though the run writes to all documents of one
  MD5 at once and only one of their ivs was tried.
* `DoneIsDone`: a run that ends by itself without a failure leaves nothing that
  another run would migrate.
* `OwnAccountsOnly`: a token opens what its holder has registered, though
  registrations of one address overlap and a login compares with a password that
  may have been changed since it was read.

### Violations

Each shows a counterexample to a statement in the repository:

* `GcOnlyOrphans`: an upload sees the object (`service/storage.rs:288`), a
  sweep deletes the last document and counts zero (`:744`), the upload inserts
  (`:397`), the sweep unlinks (`:746`). The new file has no content.
* `NoCycles`: two moves walk (`:69`), then both write (`:528`).
* `RestoreRereads`: an emptying deletes by the ids it listed (`:740`), also a
  document restored since; the restore's `unwrap` (`:638`) panics.
* `ApplyExitsZero`: the migration's query finds folders, whose `MD5Hash` is
  null but exists; `unwrap` (`migrate_storage_v1.rs:49`) panics on the first.

Other divergences are part of the models without a run of their own:

* A folder or file is moved into a folder whose id the client writes in upper
  case (`:529` stores it so), and that folder is removed: the collection asks for
  its children in lower case (`:115`), and the moved document stays active in a
  trashed folder, with no two requests overlapping. A restore misses a trashed
  child whose parent is so spelled in the same way. The exceptions that
  `SerialTreeSound` and `RestoreIsWhole` make for spellings are these.
* Two registrations of one address in different case make two accounts; the plan
  (`docs/plans/2026-07-27-storage-security-refactor.md:1182`) says "Normalize
  email to lowercase before lookup/insert."
* An overlapping retry of an upload adds a second file, for both miss at `:271`,
  and so does an upload, or a create, into a folder spelled differently.
* A restore that is answered with 409 may have restored part of its subtree, for
  `update_many` (`:630`) stops at the duplicate name; a document restored or
  moved out of the trash after it was listed is deleted by the emptying; a
  document is created in, or moved into, a folder that was trashed after it was
  validated. They are why `SerialTreeSound` excepts overlapping requests.
* A version beyond `i32::MAX` makes its document unreadable.

### Bounds

Sets in a configuration are bounds; so is `EnoughIds`, which takes a request
that inserts only while there are ids for it and for those in progress, and the
guard of `AskCreate`, which is the same for creates. Both keep a run from
stopping in the middle of a request for want of an id; no other guard depends
on them, and deadlock is checked in all passing runs.

* *Contents*: the races are between one upload and one sweep and between two
  sweeps, and both occur in `contents_uploads`. Two ids let a picture be
  uploaded with its thumbnail, whose content is a file's that may be uploaded
  too; two hashes, one of them the thumbnail of the other, are all the sharing
  there is. The run has one user and one upload, and no symmetry, for it checks
  liveness; that users and uploads in any number keep `ContentKept` and `NoLeak`
  is proved.
* *Tree*: `tree_serial` starts with a folder from which a picture with its
  thumbnail has been removed, with one id left for what creates and uploads
  insert, and has two spellings of an id, the least that differ. Its properties
  are about users whose requests do not overlap, so the constraint `Undisturbed`
  does not explore what follows an overlap, where all of them but `TypeOK` hold
  vacuously. They are proved, without the constraint, for trees of any size and
  depth. For `tree_live` two folders, the least that make a cycle, and two
  requests, the least that race; the cycle that needs three folders is
  `tree_cycles`. The other runs have one spelling, that of `to_hex`, in which the
  program's own answers give ids.
* *Server*: one slot of each kind, two ids, everything starts from an empty
  collection: each request's every step meets each other's. The tree requests
  are all but the batch restore, whose steps are those of `restoreAll` with
  roots chosen by the client; `tree_serial` has it.
* *Sharing*: one download and one listing beside any steps of the rest; two
  users; a legacy thumbnail, whose object may be whole or not, and an id for what
  is uploaded, which may be a file with that thumbnail; `MaxVersion = 1` so that
  the versions 0 and 1 and the one beyond all occur. Clients keep one link at a
  time, any of those that are handed out: what is said of links is said of each.
* *Objects*: chunks of two bytes and contents of 0 to 5: empty, less than a
  chunk, one and two chunks exactly and with a rest. `MaxIndex = 2` is reached by
  the longest. Two writers of two keys, with sources of either, and four inodes:
  one per path and per writer, so that old ones stay in use after a rename only
  while there are some to spare.
* *Migration*: three legacy documents of one content (two of one user, one of
  them with an iv that does not fit) and a fourth id for the server, and two
  runs, the second of which takes up what the first, killed anywhere, has left.
* *Accounts*: two clients, one with two passwords, two addresses, two
  overlapping requests of any kind.

### Fairness

`FairSpec` asks weak fairness of each handler's steps (`UploadStep`,
`SweepStep`, `TaskStep`): the tokio runtime polls every task that is ready,
and an await on the database or the file system returns. It asks nothing of
clients (no request need arrive) and nothing of failures (a request may be cut,
never must), and none of the steps by which the environment edits the tree.

## 4. Proofs

`tlapm <module>` checks each proof module from nothing in at most a few minutes.
All theorems are for any sets of users, documents, contents, clients and
concurrent requests, and any seed the assumptions allow.

**`ContentsProofs`** (about `Contents`):

* `TypeCorrect`: `Spec => []TypeOK`. `TypeOK` is inductive by itself because it
  ties a request's record to its `pc`: that the thumbnail's id is known exactly
  from the insert of the thumbnail on, and that only a listed hash is doomed.
* `ContentIsKept`: `Spec => []ContentKept`. `ContentKept` is not inductive: it
  says nothing of uploads that have found an object and have yet to insert, nor
  of sweeps that have counted and have yet to unlink. The invariant is

      Safe == /\ TypeOK
              /\ Referenced \cup Relied \subseteq objects \cup raced
              /\ Doomed \cap (Referenced \cup Relied) \subseteq raced

  (what is referred to or relied on is there; nobody relies on what is about
  to be unlinked). Lemma `SafeStep` reduces each action to four facts about the
  sets: new references were relied on, only doomed objects are removed, new
  reliance is on present objects, and nothing referred to becomes doomed. The
  lemmas `InsertRefers`, `PutRefers` and `EraseRefers` say what each write does
  to the references; `UploadSafe`, `SweepSafe` and `TreeSafe` go through the
  actions.
* `NothingLeaks`: `Spec => []NoLeak`. `NoLeak` is not inductive either: a
  `delete_many` may take the last reference to a content, and it is the sweep's
  list of hashes, made long before, that has to account for it. The invariant
  `Ledger` adds what the sweep remembers: before it lists it has no hashes; and
  while it deletes, each id it has yet to delete was given out, and the
  document that may still be there refers to one of the sweep's hashes
  (`Listed`). That this survives every other request is `DocsFixed`: a document
  never changes owner or content, and an id is never given out twice. `Ledger`
  also says that a rollback follows a failure. `UploadAccounts` and
  `SweepAccounts` reduce each action to what it does with the objects its own
  request holds or tends.

**`TreeProofs`** (about `Tree`):

* `TreeTypeCorrect`: `Spec => []TypeOK`, inductive by itself.
* `ParentsAreFolders` (`ParentIsOwnFolder`: a parent that was validated once and
  written much later is a folder of the same user, or gone) and `TreeStaysTree`
  (`AcyclicUnlessRaced`), from one invariant, `TreeInv`. Three parts make the
  tree's shape inductive. `Parents`: every parent is the root, or an id that was
  given out and is, if it is still there, a folder of the same user; an id never
  comes back, and no request changes a document's type or owner. `TasksSound`:
  the parent a request has validated is still such a one when it writes, and of
  a move of a folder, `Walked`: the set of ancestors its walk has seen does not
  contain the moved folder, and is closed under "parent of" but for the one it
  is at. This stays so while the walk's user moves no other folder, for files
  have nothing below them and new documents are below what was there. Acyclicity
  itself: when the move writes, a set of documents closed under "parent of" that
  had the moved folder in it would, without it, be joined by the closed set the
  walk has seen, and have been closed before. `Calm` says what every other step
  does to the documents: none changes a parent.

**`TreeSerialProofs`** (about `Tree`, on top of `TreeProofs`):

* `SerialTree` (`SerialTreeSound`), `RestoresAreWhole` (`RestoreIsWhole`) and
  `ThumbnailsFollow` (`ThumbnailFollows`), from `SerialInv`, which says of a user
  who is not `disturbed` (where a document is said to be in a folder, its parent
  is spelled as `to_hex` does, `Plain`; a document with another spelling may be
  anywhere, and nothing is claimed of where it is):
  - at most one request is in progress, and no emptying with documents still to
    delete beside it (`Alone`);
  - between requests the documents are `Settled`: active documents are in active
    folders, and a trashed thumbnail of an active file is in a folder that is
    gone or trashed;
  - a collection has, of what is below the documents it has passed, everything
    in hand or in its frontier (`Gathers`). It takes with a remove no thumbnail
    but for its file or its folder (`GathersDown`), and with a restore nothing
    whose parent is not active, still to be checked, or coming along
    (`GathersUp`). When the frontier and the roots are used up, this is
    that the set is closed under "child of";
  - an `update_many` half-way leaves the documents `Down` or `Up`: settled but
    for what it has still to write, in whatever order MongoDB takes them. `Whole`
    is what a restore will have made active when it is done;
  - a create, move or rename writes into the folder that it found active.

  `ThumbsOwn` adds, for all users, that a thumbnail belongs to one file. That the
  steps of other users' requests leave all of this alone is `Kept` and `Fewer`,
  with a lemma for each part. Nothing here is weakened for what a request does
  while it is alone; the exceptions, which put a user into `disturbed`, are
  overlaps, requests cut in the middle of their writes, a restore that meets
  a duplicate name, and a thumbnail named where files and folders are named.

**`ServerProofs`** (about `StorageServer`, on top of the three above):

* `ImplementsContents` (`ContentsSpec`) and `ImplementsTree` (`TreeSpec`): the
  initial states are those of either half, and every step of the service is a
  step of either half or a stutter. This needs `ServerInv`, which is the types of
  `Contents`, `TreeInv`, and `Local`, what neither half can say because its
  environment is the other half's requests:
  - `Uploading`: what an upload validated once is a folder of its user's, or was,
    when it inserts, in a spelling that the folder can have (`Spelt`), so that the
    insert is an `Uploaded` of `Tree`;
  - `Thumbs`: the thumbnail an upload has inserted stays its user's, with no file
    of its own, until the upload inserts that file (or takes the thumbnail back,
    a `TakenBack`), and no two uploads have the same one;
  - `Sweeping`: a sweep has listed ids that were given out, so that nothing new
    is ever among `purging`; a delete of a listed document is a `Purge`;
  - `TasksPlaced`: a request writes with what it was asked for, so that the write
    of a move or rename is a `Move` or `Rename` of `Contents`. That the target is
    a folder, or gone, is the half of `TreeInv` about `MoveSound`;
  - `RacesNoted`: every upload that relies on a doomed object is in `raced`, so
    that a step on the tree adds nothing to it;
  - `EnoughIds`: each insert takes an id that was kept for it (`EnoughLeft`).

  The argument is circular in appearance only: `ServerInv` of one state gives
  that the step is one of `Contents` and one of `Tree`, and that gives the types
  and `TreeInv` of the next, from the lemmas `StepTypes` and `StepTree` that
  `ContentsProofs` and `TreeProofs` rest on.
* `ServiceKeepsContents`, `ServiceKeepsTree`, `ServiceSerial`: the safety results
  about `Contents` and `Tree` hold of the service. `TypeOK` of either is part of
  `ServerInv`.

  `SameContentsActions` and `SameTreeActions` say that a definition instantiated
  by way of `StorageServer` and by way of the proofs is the same; they are
  definition chasing. That ids, upload slots and task slots are finite
  (`FiniteAssumption`) is what `EnoughIds` takes to count them.

**`SharingProofs`** (about `Sharing`):

* `SharingTypeCorrect`, `RevokedIsRevoked` (`RevokedLinkServesNothing`),
  `LinksStayCurrent` (`LinksAreCurrent`), `OwnContentStreamed`
  (`OwnContentOnly`), from `SharingInv`. Versions only grow, and documents keep
  user and content; the invariant says the same of what a listing has read and
  has yet to hand out as of the links in clients' hands (`LinkGood`), of a
  download that has passed the check as of one that streams (`FetchGood`), and
  that a file's thumbnail is its user's, which is what makes the second query of
  a listing find nobody else's. For `OwnContentOnly` it says that what a
  download has in hand is what its document still names (`ContentName`), also
  after a migration, because a legacy document's content hash, once it has one,
  is the content of its MD5 (`LegacyFits`).

**`ObjectsProofs`** (about `Objects`):

* `ObjectsTypeCorrect`, `WholeObjectsOnly` (`PublishedIsWhole`) and
  `ObjectsImplementObjectStore` (`ObjectStoreSpec`), for every chunk size, tag
  size and source. The invariant `ObjectsInv`: a temporary file is its writer's
  own (`Exclusive`: no path, reader or other writer has it, not even a path that
  a power loss may bring back); it has as many chunks as the writer has counted,
  all full but the last (`Written`); what any path names, or may name after a
  power loss, is whole, synced and within the indices (`Published`); a reader has
  a whole object open and has read as many chunks as it has counted (`Read`), so
  that a chunk it reads decrypts. `ObjectsImplementObjectStore` maps a rename to
  a put, an unlink to a remove, an open to the begin of a read, its last chunk to
  the end of one, and every other step to a stutter.
  `WholeLength`, what the recursive `Length` yields for a whole object, is an
  induction over its chunks, put as a least counterexample (`LeastNatural`).

**`MigrationProofs`** (about `Migration`):

* `MigrationTypeCorrect`, `WhatIsMigratedIsVerified` (`MigratedIsVerified`),
  `MigrationIsComplete` (`DoneIsDone`) and `MigrationKeepsReads`
  (`ReadsTheSame`, an action property), from `MigInv`. It says what a run has in
  hand past its check (`InHand`: a content that is its item's MD5, ids of old
  documents of the same MD5 and user, an object that was there when it was read
  back), that what is about to be unlinked is referred to only where it has
  raced (`DoomedUnused`), and where in a run that counts no failure each
  migratable document is (`StillToDo`): on the list, of the item's MD5 and user,
  or among the ids still to be updated. `OldNames` keeps the ids of uploads and
  folders apart from those of legacy documents.

**`AccountsProofs`** (about `Accounts`):

* `AccountsTypeCorrect` and `TokensOpenOwnAccounts` (`OwnAccountsOnly`), from `AccountsInv`: an account's
  password is known to who registered it (`RegistrantKnows`), and so is the one
  that a login has read and compares (`ReadsAreOfRegistrants`), which may be a
  former one.

The proofs rest on the assumptions named in the modules only (the markers are
not documents or requests, seeds are well typed and have sound parents and
thumbnails, thumbnails of pictures have hashes, `Canonical` is a spelling, ids
and slots are finite, legacy documents have an MD5 and no content but, if
migrated, its own, a profile can be set), which TLC evaluates
in the runs.

Only model-checked: the liveness properties and the step from fairness to them,
which are out of the proof system's reach. Every safety property that a passing
run checks is proved. `Local` was checked as an invariant of `server` before it
was proved; what a `server` run adds to the proof is that the steps do occur.

Only proved: `ParentIsOwnFolder`. What it is about needs overlapping requests of
two users, a folder of each, and deletes, which is more than the runs of `Tree`
and `StorageServer` have at once.

## 5. Not modelled

* *Upload request parsing*: the multipart loop and its size limits write to a
  temporary file of their own and change no shared state; each parsed file is an
  upload of `Contents`.
* *The rest of listing*: the total of a listing, its order and its pages, and
  `get_trashed_files`, which hands out no links; none of it changes state.
* *Thumbnails*: decoding and scaling are a function from pictures to contents,
  the constant `ThumbOf`.
* *Ciphers and signatures*: a chunk decrypts, and a token verifies, exactly
  where what it was made with is the same.
* *Configuration, router, error mapping, serialisation, utilities*: start-up
  and pure functions without state.
