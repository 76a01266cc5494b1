--------------------------- MODULE SharingProofs ---------------------------
(***************************************************************************)
(* What holds of Sharing for every set of users, documents, versions and   *)
(* concurrent downloads and listings.                                      *)
(***************************************************************************)
EXTENDS Sharing, TLAPS

-----------------------------------------------------------------------------
(* The invariant                                                           *)

\* A file's thumbnail is, or was, the same user's.
ThumbsAreOwn ==
    \A i \in Ids : (Exists(i) /\ docs[i].thumb # NoId) =>
        /\ docs[docs[i].thumb] # Unborn
        /\ Exists(docs[i].thumb) => docs[docs[i].thumb].user = docs[i].user

\* A legacy document names the content it has always named, migrated or not.
LegacyFits ==
    \A i \in Ids : Md5[i] # NoHash =>
        /\ docs[i] # Unborn
        /\ Exists(i) => ContentName(i) = Md5[i]

LinkGood(k) ==
    /\ docs[k.file] # Unborn
    /\ Exists(k.file) => k.since <= k.version /\ k.version <= version[k.file]

FetchGood(f) ==
    /\ f.link => f.asked <= version[f.file]
    /\ (f.link /\ f.pc # "check") => f.asked <= f.version
    /\ f.pc \in {"open", "legacy", "stream"} =>
          /\ f.owner = f.user
          /\ docs[f.file] # Unborn
          /\ Exists(f.file) => /\ docs[f.file].user = f.user
                               /\ ContentName(f.file) = f.hash
    /\ f.pc = "stream" => f.data = f.hash

ListingGood(q) ==
    /\ \A i \in Ids : q.since[i] <= version[i]
    /\ \A k \in q.links : LinkGood(k)
    /\ \A i \in q.thumbs : /\ docs[i] # Unborn
                           /\ Exists(i) => docs[i].user = q.user

\* a download whose record fits its place
FetchFits(f) == /\ f \in FetchReq
                /\ f.pc = "check" => f.link
                /\ f.pc \in {"open", "legacy", "stream"} => f.hash # NoHash

StoreTyped == /\ docs \in [Ids -> Doc \cup {Unborn, Gone}]
              /\ version \in [Ids -> Versions]
              /\ objects \subseteq Objects

LinksInv == links \subseteq Link /\ \A k \in links : LinkGood(k)

FetchesInv ==
    /\ fetch \in [Fetches -> FetchReq \cup {Free}]
    /\ \A d \in Fetches : fetch[d] # Free => FetchFits(fetch[d]) /\ FetchGood(fetch[d])

ListingsInv ==
    /\ listing \in [Listings -> ListReq \cup {Free}]
    /\ \A l \in Listings : listing[l] # Free =>
          listing[l] \in ListReq /\ ListingGood(listing[l])

SharingInv ==
    /\ StoreTyped /\ ThumbsAreOwn /\ LegacyFits
    /\ LinksInv /\ FetchesInv /\ ListingsInv

\* The invariant gives the properties.
LEMMA InvGives ==
  SharingInv => /\ TypeOK /\ RevokedLinkServesNothing
                /\ LinksAreCurrent /\ OwnContentOnly
<1> SUFFICES ASSUME SharingInv
             PROVE  /\ TypeOK /\ RevokedLinkServesNothing
                    /\ LinksAreCurrent /\ OwnContentOnly
  OBVIOUS
<1>1. TypeOK
  BY DEF SharingInv, StoreTyped, LinksInv, FetchesInv, ListingsInv, FetchFits,
         TypeOK
<1>2. RevokedLinkServesNothing
  BY VersionAssumption
     DEF SharingInv, FetchesInv, FetchGood, FetchFits, FetchReq, Versions,
         RevokedLinkServesNothing
<1>3. LinksAreCurrent
  BY DEF SharingInv, LinksInv, LinkGood, LinksAreCurrent
<1>4. OwnContentOnly
  BY DEF SharingInv, FetchesInv, FetchGood, FetchAt, OwnContentOnly
<1> QED
  BY <1>1, <1>2, <1>3, <1>4

-----------------------------------------------------------------------------
(* What every step does to documents and versions                          *)

\* documents keep their user and what they name, versions grow
Grows ==
    /\ \A i \in Ids : docs[i] # Unborn =>
          /\ docs'[i] # Unborn
          /\ docs'[i] # Gone => /\ docs[i] # Gone
                                /\ docs'[i].user = docs[i].user
                                /\ ContentName(i)' = ContentName(i)
    /\ \A i \in Ids : version[i] <= version'[i]

Numbers == \A i \in Ids : version[i] \in Nat /\ version'[i] \in Nat

LEMMA LinkStays ==
  ASSUME Grows, Numbers, NEW k \in Link, LinkGood(k)
  PROVE  LinkGood(k)'
<1>1. k.file \in Ids /\ k.version \in Nat /\ k.since \in Nat
  BY VersionAssumption DEF Link, Versions
<1> QED
  BY <1>1 DEF Grows, Numbers, LinkGood, Exists

LEMMA FetchStays ==
  ASSUME Grows, Numbers, NEW f \in FetchReq, FetchGood(f)
  PROVE  FetchGood(f)'
<1>1. f.file \in Ids /\ f.version \in Nat /\ f.asked \in Nat
  BY VersionAssumption DEF FetchReq, Versions
<1> QED
  BY <1>1 DEF Grows, Numbers, FetchGood, Exists, ContentName

LEMMA ListingStays ==
  ASSUME Grows, Numbers, NEW q \in ListReq, ListingGood(q)
  PROVE  ListingGood(q)'
<1>1. /\ q.since \in [Ids -> Versions] /\ q.links \subseteq Link
      /\ q.thumbs \subseteq Ids
  BY DEF ListReq
<1>2. \A i \in Ids : q.since[i] <= version'[i]
  <2> TAKE i \in Ids
  <2>1. q.since[i] \in Nat
    BY <1>1, VersionAssumption DEF Versions
  <2> QED
    BY <2>1 DEF ListingGood, Grows, Numbers
<1>3. \A k \in q.links : LinkGood(k)'
  BY <1>1, LinkStays DEF ListingGood
<1> QED
  BY <1>1, <1>2, <1>3 DEF ListingGood, Grows, Exists

\* What is left to prove of a step.
LEMMA Step ==
  ASSUME SharingInv, Grows, StoreTyped', ThumbsAreOwn',
         \A k \in links' : k \in Link /\ LinkGood(k),
         fetch' \in [Fetches -> FetchReq \cup {Free}],
         \A d \in Fetches : fetch'[d] # Free =>
             FetchFits(fetch'[d]) /\ FetchGood(fetch'[d]),
         listing' \in [Listings -> ListReq \cup {Free}],
         \A l \in Listings : listing'[l] # Free =>
             listing'[l] \in ListReq /\ ListingGood(listing'[l])
  PROVE  SharingInv'
<1>1. Numbers
  BY VersionAssumption DEF SharingInv, StoreTyped, Numbers, Versions
<1>2. LinksInv'
  <2>1. \A k \in links' : LinkGood(k)'
    BY <1>1, LinkStays
  <2> QED
    BY <2>1 DEF LinksInv, LinkGood
<1>3. FetchesInv'
  <2>1. \A d \in Fetches : \A f :
            (f = fetch'[d] /\ f # Free) => FetchFits(f) /\ FetchGood(f)'
    BY <1>1, FetchStays DEF FetchFits
  <2> QED
    BY <2>1 DEF FetchesInv, FetchFits, FetchGood
<1>4. ListingsInv'
  <2>1. \A l \in Listings : \A q :
            (q = listing'[l] /\ q # Free) => q \in ListReq /\ ListingGood(q)'
    BY <1>1, ListingStays
  <2> QED
    BY <2>1 DEF ListingsInv, ListingGood, LinkGood
<1>5. LegacyFits'
  BY DEF SharingInv, LegacyFits, Grows, Exists, ContentName
<1> QED
  BY <1>2, <1>3, <1>4, <1>5 DEF SharingInv

\* The steps by which no document, version or object changes.
LEMMA Still ==
  ASSUME SharingInv, UNCHANGED <<docs, version, objects>>
  PROVE  Grows /\ StoreTyped' /\ ThumbsAreOwn'
  BY VersionAssumption
     DEF SharingInv, StoreTyped, ThumbsAreOwn, Grows, Exists, Versions,
         ContentName

LEMMA FetchStep1 ==
  ASSUME SharingInv, UNCHANGED <<docs, version, objects, links, listing>>,
         NEW d \in Fetches, NEW f, f = Free \/ (FetchFits(f) /\ FetchGood(f)),
         fetch' = [fetch EXCEPT ![d] = f]
  PROVE  SharingInv'
<1>1. Grows /\ StoreTyped' /\ ThumbsAreOwn'
  BY Still
<1>2. /\ fetch' \in [Fetches -> FetchReq \cup {Free}]
      /\ \A e \in Fetches : fetch'[e] # Free =>
             FetchFits(fetch'[e]) /\ FetchGood(fetch'[e])
  BY DEF SharingInv, FetchesInv, FetchFits
<1> QED
  BY <1>1, <1>2, Step DEF SharingInv, LinksInv, ListingsInv

LEMMA ListingStep ==
  ASSUME SharingInv, UNCHANGED <<docs, version, objects, fetch>>,
         NEW l \in Listings, NEW q, q = Free \/ (q \in ListReq /\ ListingGood(q)),
         listing' = [listing EXCEPT ![l] = q],
         \A k \in links' : k \in Link /\ LinkGood(k)
  PROVE  SharingInv'
<1>1. Grows /\ StoreTyped' /\ ThumbsAreOwn'
  BY Still
<1>2. /\ listing' \in [Listings -> ListReq \cup {Free}]
      /\ \A m \in Listings : listing'[m] # Free =>
             listing'[m] \in ListReq /\ ListingGood(listing'[m])
  BY DEF SharingInv, ListingsInv
<1> QED
  BY <1>1, <1>2, Step DEF SharingInv, FetchesInv

LEMMA StoreStep ==
  ASSUME SharingInv, Grows, StoreTyped', ThumbsAreOwn',
         UNCHANGED <<links, fetch, listing>>
  PROVE  SharingInv'
  BY Step DEF SharingInv, LinksInv, FetchesInv, ListingsInv

\* A link to a document as it is read, asked for at version s.
LEMMA ReadLink ==
  ASSUME SharingInv, NEW u \in Users, NEW i \in Ids, docs[i] # Unborn,
         NEW s \in Versions, s <= version[i]
  PROVE  LinkTo(u, i, version[i], s) \in Link
         /\ LinkGood(LinkTo(u, i, version[i], s))
<1>1. version[i] \in Versions /\ version[i] <= version[i]
  BY VersionAssumption DEF SharingInv, StoreTyped, Versions
<1> DEFINE k == LinkTo(u, i, version[i], s)
<1>2. k \in Link /\ k.file = i /\ k.version = version[i] /\ k.since = s
  BY <1>1 DEF LinkTo, Link
<1> HIDE DEF k
<1>3. LinkGood(k)
  BY <1>1, <1>2 DEF LinkGood
<1> QED
  BY <1>2, <1>3 DEF k

-----------------------------------------------------------------------------
(* Links and listings                                                      *)

LEMMA UrlStep ==
  ASSUME SharingInv, NEW u \in Users, NEW i \in Ids, GetDownloadUrl(u, i)
  PROVE  SharingInv'
<1> DEFINE k == LinkTo(u, i, version[i], version[i])
<1>1. docs[i] # Unborn /\ UNCHANGED <<docs, version, objects, fetch, listing>>
      /\ links' \subseteq links \cup {k}
  BY DEF GetDownloadUrl, Owned, Exists, HandOut
<1>2. version[i] \in Versions /\ version[i] <= version[i]
  BY VersionAssumption DEF SharingInv, StoreTyped, Versions
<1>3. k \in Link /\ LinkGood(k)
  BY <1>1, <1>2, ReadLink
<1>4. Grows /\ StoreTyped' /\ ThumbsAreOwn'
  BY <1>1, Still
<1> HIDE DEF k
<1>5. \A j \in links' : j \in Link /\ LinkGood(j)
  BY <1>1, <1>3 DEF SharingInv, LinksInv
<1> QED
  BY <1>1, <1>4, <1>5, Step DEF SharingInv, FetchesInv, ListingsInv

LEMMA StartListingStep ==
  ASSUME SharingInv, NEW l \in Listings, StartListing(l)
  PROVE  SharingInv'
<1>1. PICK u \in Users : listing' = [listing EXCEPT ![l] =
              [pc |-> "page", user |-> u, since |-> version,
               links |-> {}, thumbs |-> {}]]
  BY DEF StartListing
<1> DEFINE q == [pc |-> "page", user |-> u, since |-> version,
                 links |-> {}, thumbs |-> {}]
<1>2. q \in ListReq /\ ListingGood(q)
  BY VersionAssumption
     DEF SharingInv, StoreTyped, ListReq, ListingGood, Versions
<1>3. listing' = [listing EXCEPT ![l] = q]
  BY <1>1
<1> HIDE DEF q
<1> QED
  BY <1>2, <1>3, ListingStep DEF StartListing, SharingInv, LinksInv

LEMMA QueryPageStep ==
  ASSUME SharingInv, NEW l \in Listings, QueryPage(l)
  PROVE  SharingInv'
<1> DEFINE q == listing[l]
           u == q.user
<1>1. q # Free /\ UNCHANGED <<docs, version, objects, fetch>>
  BY DEF QueryPage, ListingAt
<1>2. q \in ListReq /\ ListingGood(q)
  BY <1>1 DEF SharingInv, ListingsInv
<1>3. PICK S \in SUBSET Listed(u) :
        LET files == {LinkTo(u, i, version[i], q.since[i]) :
                         i \in {j \in S : docs[j].type = "file"}}
            ths   == {docs[i].thumb : i \in S} \ {NoId}
        IN \/ AnswerListing(l) /\ UNCHANGED links
           \/ AnswerListing(l) /\ HandOut(files)
           \/ /\ listing' = [listing EXCEPT ![l].pc = "thumbs",
                                            ![l].links = files,
                                            ![l].thumbs = ths]
              /\ UNCHANGED links
  BY DEF QueryPage
<1> DEFINE F == {LinkTo(u, i, version[i], q.since[i]) :
                    i \in {j \in S : docs[j].type = "file"}}
           T == {docs[i].thumb : i \in S} \ {NoId}
<1>4. \A i \in S : i \in Ids /\ Exists(i) /\ docs[i].user = u
  BY DEF Listed, Owned
<1>5. \A k \in F : k \in Link /\ LinkGood(k)
  <2>1. ASSUME NEW i \in S
        PROVE  /\ LinkTo(u, i, version[i], q.since[i]) \in Link
               /\ LinkGood(LinkTo(u, i, version[i], q.since[i]))
    <3>1. /\ q.since[i] \in Versions /\ q.since[i] <= version[i]
          /\ u \in Users /\ docs[i] # Unborn
      BY <1>2, <1>4 DEF ListReq, ListingGood, Exists
    <3> QED
      BY <1>4, <3>1, ReadLink
  <2> QED
    BY <2>1
<1>6. \A i \in T : i \in Ids /\ docs[i] # Unborn
                    /\ (Exists(i) => docs[i].user = u)
  <2> TAKE i \in T
  <2>1. PICK j \in S : docs[j].thumb = i /\ i # NoId
    OBVIOUS
  <2>2. docs[j] \in Doc
    BY <1>4 DEF SharingInv, StoreTyped, Exists
  <2> QED
    BY <1>4, <2>1, <2>2 DEF SharingInv, ThumbsAreOwn, Doc
<1>7. \A k \in links : k \in Link /\ LinkGood(k)
  BY DEF SharingInv, LinksInv
<1>8. CASE AnswerListing(l) /\ UNCHANGED links
  BY <1>1, <1>7, <1>8, ListingStep DEF AnswerListing
<1>9. CASE AnswerListing(l) /\ HandOut(F)
  <2> HIDE DEF F
  <2>1. \A k \in links' : k \in Link /\ LinkGood(k)
    BY <1>5, <1>7, <1>9 DEF HandOut
  <2> QED
    BY <1>1, <1>9, <2>1, ListingStep DEF AnswerListing
<1>10. CASE /\ listing' = [listing EXCEPT ![l].pc = "thumbs", ![l].links = F,
                                          ![l].thumbs = T]
            /\ UNCHANGED links
  <2> HIDE DEF F, T
  <2> DEFINE r == [q EXCEPT !.pc = "thumbs", !.links = F, !.thumbs = T]
  <2>1. listing' = [listing EXCEPT ![l] = r]
    BY <1>10
  <2>2. /\ r \in ListReq /\ r.since = q.since /\ r.links = F /\ r.thumbs = T
        /\ r.user = u
    BY <1>2, <1>5, <1>6 DEF ListReq
  <2> HIDE DEF r
  <2>3. ListingGood(r)
    BY <1>2, <1>5, <1>6, <2>2 DEF ListingGood
  <2> QED
    BY <1>1, <1>7, <1>10, <2>1, <2>2, <2>3, ListingStep
<1> QED
  BY <1>3, <1>8, <1>9, <1>10

LEMMA QueryThumbsStep ==
  ASSUME SharingInv, NEW l \in Listings, QueryThumbs(l)
  PROVE  SharingInv'
<1> DEFINE q == listing[l]
<1>1. q # Free /\ UNCHANGED <<docs, version, objects, fetch>>
      /\ listing' = [listing EXCEPT ![l] = Free]
  BY DEF QueryThumbs, ListingAt, AnswerListing
<1>2. q \in ListReq /\ ListingGood(q)
  BY <1>1 DEF SharingInv, ListingsInv
<1>3. \A k \in links : k \in Link /\ LinkGood(k)
  BY DEF SharingInv, LinksInv
<1>4. \A k \in q.links : k \in Link /\ LinkGood(k)
  BY <1>2 DEF ListReq, ListingGood
<1>5. \A k \in ThumbLinks(l) : k \in Link /\ LinkGood(k)
  <2> SUFFICES ASSUME NEW i \in q.thumbs, NEW k,
                      k = LinkTo(q.user, i, ThumbVersion(q.user, i), q.since[i])
               PROVE  k \in Link /\ LinkGood(k)
    BY DEF ThumbLinks
  <2>1. /\ i \in Ids /\ q.user \in Users /\ q.since[i] \in Versions
        /\ q.since[i] <= version[i] /\ docs[i] # Unborn
        /\ (Exists(i) => docs[i].user = q.user)
    BY <1>2 DEF ListReq, ListingGood
  <2>2. CASE Owned(i, q.user)
    BY <2>1, <2>2, ReadLink DEF ThumbVersion
  <2>3. CASE ~Owned(i, q.user)
    <3>1. 0 \in Versions /\ ~Exists(i)
      BY <2>1, <2>3, VersionAssumption DEF Versions, Owned
    <3>2. k \in Link /\ k.file = i
      BY <2>1, <2>3, <3>1 DEF ThumbVersion, LinkTo, Link
    <3> QED
      BY <2>1, <3>1, <3>2 DEF LinkGood
  <2> QED
    BY <2>2, <2>3
<1>6. \A k \in links' : k \in Link /\ LinkGood(k)
  BY <1>3, <1>4, <1>5 DEF QueryThumbs, HandOut
<1> QED
  BY <1>1, <1>6, ListingStep

LEMMA ExpireStep ==
  ASSUME SharingInv, Expire
  PROVE  SharingInv'
<1>1. links' \subseteq links /\ UNCHANGED <<docs, version, objects, fetch, listing>>
  BY DEF Expire
<1>2. Grows /\ StoreTyped' /\ ThumbsAreOwn'
  BY <1>1, Still
<1> QED
  BY <1>1, <1>2, Step DEF SharingInv, LinksInv, FetchesInv, ListingsInv

-----------------------------------------------------------------------------
(* Downloads                                                               *)

LEMMA DownloadStep ==
  ASSUME SharingInv, NEW d \in Fetches,
         StartFetch(d) \/ FetchStep(d) \/ EndFetch(d)
  PROVE  SharingInv'
<1> DEFINE f == fetch[d]
<1>1. UNCHANGED <<docs, version, objects, links, listing>>
  BY DEF StartFetch, FetchStep, CheckVersion, LoadContent, Open, ReadLegacy,
         EndFetch
<1>2. ASSUME NEW r, FetchFits(r), FetchGood(r), fetch' = [fetch EXCEPT ![d] = r]
      PROVE  SharingInv'
  BY <1>1, <1>2, FetchStep1
<1>3. CASE AnswerFetch(d)
  BY <1>1, <1>3, FetchStep1 DEF AnswerFetch
<1>4. f # Free => f \in FetchReq /\ FetchFits(f) /\ FetchGood(f)
  BY DEF SharingInv, FetchesInv, FetchFits
<1>5. \A i \in Ids : version[i] \in Versions /\ version[i] <= version[i]
  BY VersionAssumption DEF SharingInv, StoreTyped, Versions
<1>6. CASE StartFetch(d)
  <2>1. CASE \E k \in links : fetch' = [fetch EXCEPT ![d] =
                 [pc |-> "check", user |-> k.user, file |-> k.file,
                  link |-> TRUE, version |-> k.version,
                  asked |-> version[k.file],
                  owner |-> k.user, hash |-> NoHash, data |-> NoHash]]
    <3>1. PICK k \in links : fetch' = [fetch EXCEPT ![d] =
                 [pc |-> "check", user |-> k.user, file |-> k.file,
                  link |-> TRUE, version |-> k.version,
                  asked |-> version[k.file],
                  owner |-> k.user, hash |-> NoHash, data |-> NoHash]]
      BY <2>1
    <3> DEFINE r == [pc |-> "check", user |-> k.user, file |-> k.file,
                     link |-> TRUE, version |-> k.version,
                     asked |-> version[k.file],
                     owner |-> k.user, hash |-> NoHash, data |-> NoHash]
    <3>2. /\ k.user \in Users /\ k.file \in Ids /\ k.version \in Versions
          /\ version[k.file] \in Versions
          /\ version[k.file] <= version[k.file]
      BY <1>5 DEF SharingInv, LinksInv, Link
    <3>3. FetchFits(r) /\ FetchGood(r)
      BY <3>2 DEF FetchFits, FetchGood, FetchReq
    <3>4. fetch' = [fetch EXCEPT ![d] = r]
      BY <3>1
    <3> HIDE DEF r
    <3> QED
      BY <1>2, <3>3, <3>4
  <2>2. CASE \E u \in Users, i \in Born : fetch' = [fetch EXCEPT ![d] =
                 [pc |-> "load", user |-> u, file |-> i, link |-> FALSE,
                  version |-> 0, asked |-> 0,
                  owner |-> u, hash |-> NoHash, data |-> NoHash]]
    <3>1. PICK u \in Users, i \in Born : fetch' = [fetch EXCEPT ![d] =
                 [pc |-> "load", user |-> u, file |-> i, link |-> FALSE,
                  version |-> 0, asked |-> 0,
                  owner |-> u, hash |-> NoHash, data |-> NoHash]]
      BY <2>2
    <3> DEFINE r == [pc |-> "load", user |-> u, file |-> i, link |-> FALSE,
                     version |-> 0, asked |-> 0,
                     owner |-> u, hash |-> NoHash, data |-> NoHash]
    <3>2. 0 \in Versions /\ i \in Ids
      BY VersionAssumption DEF Versions, Born
    <3>3. FetchFits(r) /\ FetchGood(r)
      BY <3>2 DEF FetchFits, FetchGood, FetchReq
    <3>4. fetch' = [fetch EXCEPT ![d] = r]
      BY <3>1
    <3> HIDE DEF r
    <3> QED
      BY <1>2, <3>3, <3>4
  <2> QED
    BY <1>6, <2>1, <2>2 DEF StartFetch
<1>7. CASE CheckVersion(d) /\ ~AnswerFetch(d)
  <2> DEFINE r == [f EXCEPT !.pc = "load"]
  <2>1. f # Free /\ f.version = version[f.file]
        /\ fetch' = [fetch EXCEPT ![d] = r]
    BY <1>7 DEF CheckVersion, FetchAt, Unrevoked
  <2>2. /\ r \in FetchReq /\ r.pc = "load" /\ r.link = f.link
        /\ r.file = f.file /\ r.version = f.version /\ r.asked = f.asked
    BY <1>4, <2>1 DEF FetchReq
  <2> HIDE DEF r
  <2>3. FetchFits(r) /\ FetchGood(r)
    BY <1>4, <2>1, <2>2 DEF FetchFits, FetchGood
  <2> QED
    BY <1>2, <2>1, <2>3
<1>8. CASE LoadContent(d) /\ ~AnswerFetch(d)
  <2> DEFINE i == f.file
             o == docs[i].user
             h == ContentName(i)
             c == IF docs[i].hash # NoHash THEN "open" ELSE "legacy"
             r == [f EXCEPT !.pc = c, !.owner = o, !.hash = h]
  <2>1. /\ f # Free /\ f.pc = "load" /\ Owned(i, f.user) /\ h # NoHash
        /\ fetch' = [fetch EXCEPT ![d] = r]
    BY <1>8 DEF LoadContent, FetchAt, MayRead, HasContent
  <2>2. i \in Ids /\ docs[i] \in Doc /\ docs[i] # Unborn
    BY <1>4, <2>1 DEF FetchReq, Owned, Exists, SharingInv, StoreTyped
  <2>3. /\ o \in Users /\ h \in Hashes \cup {NoHash} /\ o = f.user
        /\ c \in {"open", "legacy"}
    BY <2>1, <2>2, LegacyAssumption DEF Doc, Owned, ContentName
  <2>4. /\ r \in FetchReq /\ r.pc = c /\ r.link = f.link
        /\ r.file = i /\ r.version = f.version /\ r.asked = f.asked
        /\ r.owner = o /\ r.hash = h /\ r.user = f.user
    <3> HIDE DEF o, h, c
    <3> QED
      BY <1>4, <2>1, <2>3 DEF FetchReq
  <2> HIDE DEF r, c
  <2>5. FetchFits(r) /\ FetchGood(r)
    BY <1>4, <2>1, <2>2, <2>3, <2>4 DEF FetchFits, FetchGood
  <2> QED
    BY <1>2, <2>1, <2>5
<1>9. CASE (Open(d) \/ ReadLegacy(d)) /\ ~AnswerFetch(d)
  <2> DEFINE r == [f EXCEPT !.pc = "stream", !.data = f.hash]
  <2>1. /\ f # Free /\ f.pc \in {"open", "legacy"}
        /\ fetch' = [fetch EXCEPT ![d] = r]
    <3>1. CASE Open(d)
      BY <1>9, <3>1 DEF Open, FetchAt
    <3>2. CASE ReadLegacy(d)
      BY <1>9, <3>2 DEF ReadLegacy, Intact, FetchAt
    <3> QED
      BY <1>9, <3>1, <3>2
  <2>2. /\ r \in FetchReq /\ r.pc = "stream" /\ r.link = f.link
        /\ r.file = f.file /\ r.version = f.version /\ r.asked = f.asked
        /\ r.owner = f.owner /\ r.hash = f.hash /\ r.user = f.user
        /\ r.data = f.hash
    BY <1>4, <2>1 DEF FetchReq
  <2> HIDE DEF r
  <2>3. FetchFits(r) /\ FetchGood(r)
    BY <1>4, <2>1, <2>2 DEF FetchFits, FetchGood
  <2> QED
    BY <1>2, <2>1, <2>3
<1> QED
  BY <1>3, <1>6, <1>7, <1>8, <1>9 DEF FetchStep, EndFetch

-----------------------------------------------------------------------------
(* Documents, versions and objects                                         *)

LEMMA RevokeStep ==
  ASSUME SharingInv, NEW u \in Users, NEW i \in Ids, RevokeShare(u, i)
  PROVE  SharingInv'
<1>1. UNCHANGED <<docs, objects, links, fetch, listing>>
      /\ version' = [version EXCEPT ![i] = Incremented(version[i])]
  BY DEF RevokeShare
<1>2. version \in [Ids -> Versions]
  BY DEF SharingInv, StoreTyped
<1>3. \A v \in Versions : Incremented(v) \in Versions /\ v <= Incremented(v)
  BY VersionAssumption DEF Versions, Incremented
<1>4. version' \in [Ids -> Versions] /\ \A j \in Ids : version[j] <= version'[j]
  BY <1>1, <1>2, <1>3, VersionAssumption DEF Versions
<1>5. Grows
  BY <1>1, <1>4 DEF Grows, ContentName
<1>6. StoreTyped' /\ ThumbsAreOwn'
  BY <1>1, <1>4 DEF SharingInv, StoreTyped, ThumbsAreOwn, Exists
<1> QED
  BY <1>1, <1>5, <1>6, StoreStep

LEMMA SameVersions ==
  ASSUME SharingInv, UNCHANGED version
  PROVE  \A j \in Ids : version[j] <= version'[j]
  BY VersionAssumption DEF SharingInv, StoreTyped, Versions

\* A document is written that keeps its user, thumbnail and what it names.
LEMMA RewriteStep ==
  ASSUME SharingInv, NEW i \in Ids, Exists(i), NEW d \in Doc,
         d.user = docs[i].user, d.thumb = docs[i].thumb,
         ContentName(i) = IF d.hash # NoHash THEN d.hash ELSE Md5[i],
         docs' = [docs EXCEPT ![i] = d],
         UNCHANGED <<version, objects, links, fetch, listing>>
  PROVE  SharingInv'
<1>1. docs \in [Ids -> Doc \cup {Unborn, Gone}]
  BY DEF SharingInv, StoreTyped
<1>2. docs'[i] = d /\ d \notin {Unborn, Gone} /\ \A j \in Ids \ {i} : docs'[j] = docs[j]
  BY <1>1, MarkerAssumption
<1>3. Grows
  BY <1>2, SameVersions DEF Grows, Exists, ContentName
<1>4. StoreTyped'
  BY <1>1 DEF SharingInv, StoreTyped
<1>5. ThumbsAreOwn'
  BY <1>2 DEF SharingInv, ThumbsAreOwn, Exists
<1> QED
  BY <1>3, <1>4, <1>5, StoreStep

\* A document that has been inserted.
LEMMA InsertStep ==
  ASSUME SharingInv, NEW i \in Ids, NEW d \in Doc, Insert(i, d),
         d.thumb # NoId => /\ docs[d.thumb] # Unborn
                           /\ Exists(d.thumb) => docs[d.thumb].user = d.user,
         objects' \subseteq Objects, UNCHANGED <<version, links, fetch, listing>>
  PROVE  SharingInv'
<1>1. docs \in [Ids -> Doc \cup {Unborn, Gone}]
  BY DEF SharingInv, StoreTyped
<1>2. docs'[i] = d /\ docs[i] = Unborn /\ d \notin {Unborn, Gone}
      /\ \A j \in Ids \ {i} : docs'[j] = docs[j]
  BY <1>1, MarkerAssumption DEF Insert
<1>3. Grows
  BY <1>2, SameVersions DEF Grows, Exists, ContentName
<1>4. StoreTyped'
  BY <1>1 DEF SharingInv, StoreTyped, Insert
<1>5. ThumbsAreOwn'
  <2>1. d.thumb \in Ids \cup {NoId} /\ \A j \in Ids : Exists(j) =>
            docs[j].thumb \in Ids \cup {NoId}
    BY <1>1 DEF Exists, Doc
  <2>2. \A j \in Ids : docs[j] # Unborn => docs'[j] = docs[j]
    BY <1>2
  <2>3. ASSUME NEW j \in Ids, docs'[j] \notin {Unborn, Gone}, docs'[j].thumb # NoId
        PROVE  LET th == docs'[j].thumb IN
               /\ docs'[th] # Unborn
               /\ docs'[th] # Gone => docs'[th].user = docs'[j].user
    <3>1. CASE j = i
      BY <1>2, <2>1, <2>2, <2>3, <3>1 DEF Exists
    <3>2. CASE j # i
      BY <1>2, <2>1, <2>2, <2>3, <3>2 DEF SharingInv, ThumbsAreOwn, Exists
    <3> QED
      BY <3>1, <3>2
  <2> QED
    BY <2>3 DEF ThumbsAreOwn, Exists
<1> QED
  BY <1>3, <1>4, <1>5, StoreStep

LEMMA DocumentStep ==
  ASSUME SharingInv, NEW i \in Ids,
         Upload(i) \/ CreateFolder(i) \/ Retrash(i) \/ Purge(i) \/ Migrate(i)
  PROVE  SharingInv'
<1>1. docs \in [Ids -> Doc \cup {Unborn, Gone}] /\ objects \subseteq Objects
  BY DEF SharingInv, StoreTyped
<1>2. CASE Upload(i)
  <2>1. PICK u \in Users, h \in Hashes, ty \in {"file", "thumbnail"},
             th \in Ids \cup {NoId} :
          /\ th # NoId =>
                /\ ty = "file" /\ docs[th] # Unborn
                /\ Exists(th) => Owned(th, u) /\ docs[th].type = "thumbnail"
          /\ Insert(i, [type |-> ty, user |-> u, name |-> NoName,
                        parent |-> Root, spelling |-> Canonical, hash |-> h,
                        thumb |-> th, trashed |-> FALSE])
          /\ objects' = objects \cup {<<u, h>>}
    BY <1>2 DEF Upload
  <2> DEFINE d == [type |-> ty, user |-> u, name |-> NoName,
                   parent |-> Root, spelling |-> Canonical, hash |-> h,
                   thumb |-> th, trashed |-> FALSE]
  <2>2. d \in Doc /\ d.thumb = th /\ d.user = u /\ Insert(i, d)
    BY <2>1, SpellingAssumption DEF Doc, Types
  <2>3. objects' \subseteq Objects
    BY <1>1, <2>1 DEF Objects
  <2>4. th # NoId => docs[th] # Unborn /\ (Exists(th) => docs[th].user = u)
    BY <2>1 DEF Owned
  <2>5. UNCHANGED <<version, links, fetch, listing>>
    BY <1>2 DEF Upload
  <2> HIDE DEF d
  <2> QED
    BY <2>2, <2>3, <2>4, <2>5, InsertStep
<1>3. CASE CreateFolder(i)
  <2>1. PICK u \in Users :
          Insert(i, [type |-> "folder", user |-> u, name |-> NoName,
                     parent |-> Root, spelling |-> Canonical,
                     hash |-> NoHash, thumb |-> NoId, trashed |-> FALSE])
    BY <1>3 DEF CreateFolder
  <2> DEFINE d == [type |-> "folder", user |-> u, name |-> NoName,
                   parent |-> Root, spelling |-> Canonical,
                   hash |-> NoHash, thumb |-> NoId, trashed |-> FALSE]
  <2>2. d \in Doc /\ d.thumb = NoId /\ Insert(i, d)
    BY <2>1, SpellingAssumption DEF Doc, Types
  <2>3. objects' \subseteq Objects /\ UNCHANGED <<version, links, fetch, listing>>
    BY <1>1, <1>3 DEF CreateFolder
  <2> HIDE DEF d
  <2> QED
    BY <2>2, <2>3, InsertStep
<1>4. CASE Retrash(i)
  <2> DEFINE d == [docs[i] EXCEPT !.trashed = ~docs[i].trashed]
  <2>1. Exists(i) /\ docs' = [docs EXCEPT ![i] = d]
        /\ UNCHANGED <<version, objects, links, fetch, listing>>
    BY <1>4 DEF Retrash, Put
  <2>2. docs[i] \in Doc
    BY <1>1, <2>1 DEF Exists
  <2>3. d \in Doc /\ d.user = docs[i].user /\ d.hash = docs[i].hash
        /\ d.thumb = docs[i].thumb
    BY <2>2 DEF Doc
  <2> HIDE DEF d
  <2> QED
    BY <2>1, <2>3, RewriteStep DEF ContentName
<1>5. CASE Purge(i)
  <2>1. docs' = [docs EXCEPT ![i] = Gone]
        /\ UNCHANGED <<version, objects, links, fetch, listing>>
    BY <1>5 DEF Purge, Erase
  <2>2. docs'[i] = Gone /\ \A j \in Ids \ {i} : docs'[j] = docs[j]
    BY <1>1, <2>1
  <2>3. Grows
    BY <2>1, <2>2, SameVersions, MarkerAssumption DEF Grows, ContentName
  <2>4. StoreTyped'
    BY <2>1 DEF SharingInv, StoreTyped
  <2>5. ThumbsAreOwn'
    <3>1. \A j \in Ids : Exists(j) => docs[j].thumb \in Ids \cup {NoId}
      BY <1>1 DEF Exists, Doc
    <3>2. ASSUME NEW j \in Ids, docs'[j] \notin {Unborn, Gone},
                 docs'[j].thumb # NoId
          PROVE  LET th == docs'[j].thumb IN
                 /\ docs'[th] # Unborn
                 /\ docs'[th] # Gone => docs'[th].user = docs'[j].user
      BY <2>2, <3>1, <3>2, MarkerAssumption DEF SharingInv, ThumbsAreOwn, Exists
    <3> QED
      BY <3>2 DEF ThumbsAreOwn, Exists
  <2> QED
    BY <2>1, <2>3, <2>4, <2>5, StoreStep
<1>6. CASE Migrate(i)
  <2> DEFINE d == [docs[i] EXCEPT !.hash = Md5[i]]
  <2>1. /\ Exists(i) /\ Md5[i] # NoHash /\ docs' = [docs EXCEPT ![i] = d]
        /\ UNCHANGED <<version, objects, links, fetch, listing>>
    BY <1>6 DEF Migrate, Put
  <2>2. docs[i] \in Doc /\ Md5[i] \in Hashes
    BY <1>1, <2>1, LegacyAssumption DEF Exists
  <2>3. d \in Doc /\ d.user = docs[i].user /\ d.hash = Md5[i]
        /\ d.thumb = docs[i].thumb
    BY <2>2 DEF Doc
  <2>4. ContentName(i) = Md5[i]
    BY <2>1 DEF SharingInv, LegacyFits
  <2> HIDE DEF d
  <2> QED
    BY <2>1, <2>3, <2>4, RewriteStep
<1> QED
  BY <1>2, <1>3, <1>4, <1>5, <1>6

\* An object comes or goes.
LEMMA ObjectStep ==
  ASSUME SharingInv,
         \/ \E o \in Objects : Unlink(o)
         \/ \E i \in Ids : StoreLegacy(i)
  PROVE  SharingInv'
<1>1. UNCHANGED <<docs, version, links, fetch, listing>>
  BY DEF Unlink, StoreLegacy
<1>2. Grows
  BY <1>1, SameVersions DEF Grows, ContentName
<1>3. objects' \subseteq Objects
  <2>1. objects \subseteq Objects
    BY DEF SharingInv, StoreTyped
  <2>2. ASSUME NEW i \in Ids, StoreLegacy(i)
        PROVE  <<Seeded[i].user, Md5[i]>> \in Objects
    BY <2>2, LegacyAssumption, SeedAssumption DEF StoreLegacy, Objects, Doc
  <2> QED
    BY <2>1, <2>2 DEF Unlink, StoreLegacy
<1>4. StoreTyped' /\ ThumbsAreOwn'
  BY <1>1, <1>3 DEF SharingInv, StoreTyped, ThumbsAreOwn, Exists
<1> QED
  BY <1>1, <1>2, <1>4, StoreStep

-----------------------------------------------------------------------------
\* Links and downloads keep step with versions that only grow and documents
\* that keep their user and what they name.
THEOREM SharingInvariant == Spec => []SharingInv
<1>1. Init => SharingInv
  <2> SUFFICES ASSUME Init PROVE SharingInv
    OBVIOUS
  <2>1. StoreTyped
    BY SeedAssumption, VersionAssumption DEF Init, StoreTyped, Versions
  <2>2. ThumbsAreOwn
    BY SeedThumbAssumption DEF Init, ThumbsAreOwn, Exists
  <2>3. LegacyFits
    BY LegacyAssumption, MarkerAssumption
       DEF Init, LegacyFits, Exists, ContentName
  <2> QED
    BY <2>1, <2>2, <2>3 DEF Init, SharingInv, LinksInv, FetchesInv, ListingsInv
<1>2. SharingInv /\ [Next]_vars => SharingInv'
  <2> SUFFICES ASSUME SharingInv, [Next]_vars PROVE SharingInv'
    OBVIOUS
  <2>1. ASSUME NEW l \in Listings,
               \/ StartListing(l) \/ QueryPage(l) \/ QueryThumbs(l) \/ EndListing(l)
        PROVE  SharingInv'
    <3>1. CASE EndListing(l)
      BY <3>1, ListingStep DEF EndListing, AnswerListing, SharingInv, LinksInv
    <3> QED
      BY <2>1, <3>1, StartListingStep, QueryPageStep, QueryThumbsStep
  <2>2. CASE UNCHANGED vars
    BY <2>2, Still, StoreStep DEF vars
  <2> QED
    BY <2>1, <2>2, UrlStep, RevokeStep, ExpireStep, DownloadStep, DocumentStep,
       ObjectStep DEF Next
<1> QED
  BY <1>1, <1>2, PTL DEF Spec

\* Every reachable state of Sharing is well typed.
THEOREM SharingTypeCorrect == Spec => []TypeOK
  BY SharingInvariant, InvGives, PTL

\* No download that arrives after a revocation gets past the check with an
\* older link, whatever the version has grown to.
THEOREM RevokedIsRevoked == Spec => []RevokedLinkServesNothing
  BY SharingInvariant, InvGives, PTL

\* A link that is handed out is not yet revoked, and not good for longer than
\* the version it was read with.
THEOREM LinksStayCurrent == Spec => []LinksAreCurrent
  BY SharingInvariant, InvGives, PTL

\* What is streamed is the content that the file that was asked for names,
\* also from a legacy object, which is shared and may be torn.
THEOREM OwnContentStreamed == Spec => []OwnContentOnly
  BY SharingInvariant, InvGives, PTL
=============================================================================
