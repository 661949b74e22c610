----------------------------- MODULE Publishing -----------------------------
(***************************************************************************)
(* mock_provider/generate_mock_data.py and a crawl of what it writes: the  *)
(* files of mock_provider/public are overwritten in place, one by one,     *)
(* while a crawler may be reading them.                                    *)
(*                                                                         *)
(* write_bytes truncates a file and then fills it; a build may die before, *)
(* after and in between.  Every build writes the same items again and only *)
(* stamps them anew, so a segment file is its stamp, which is also its     *)
(* digest; two builds within a second write the same bytes.                *)
(***************************************************************************)
EXTENDS Naturals

CONSTANTS
    Latest,           \* how many segments a build writes
    Index, Manifest,  \* index.json and manifest.json
    None,             \* no such file, no result
    Torn,             \* a file opened for writing and not filled
    MaxBuilds,        \* bound: how many builds run to their end
    MaxDeaths         \* bound: how many builds and crawls are killed

Segments == 1..Latest
Files == Segments \union {Index, Manifest}

ASSUME NamesAssumption ==
    /\ Latest \in Nat \ {0}
    /\ Index \notin Segments /\ Manifest \notin Segments /\ Index # Manifest
    /\ None \notin Nat /\ Torn \notin Nat /\ None # Torn /\ None # "failed"

ASSUME DeathsAssumption == MaxBuilds \in Nat /\ MaxDeaths \in Nat

(* A segment is its stamp; index.json is who signed it and the digest it   *)
(* lists of each segment; manifest.json is the key it advertises.          *)
Segment == [stamp : Nat]
IndexDocument == [key : Nat, digest : [Segments -> Nat]]
ManifestDocument == [key : Nat]
Documents(f) == IF f = Index THEN IndexDocument
                ELSE IF f = Manifest THEN ManifestDocument ELSE Segment

ASSUME DocumentsAssumption ==
    {None, Torn} \intersect (Segment \union IndexDocument \union ManifestDocument) = {}

VARIABLES
    private_key,  \* private_key.pem
    public,       \* the files of PUBLIC_DIR; manifest.json is its key
    bpc,          \* where build() is
    key,          \* its private_key
    stamp,        \* its now()
    turn,         \* which file of Order it is at
    open,         \* that file is truncated and not yet filled
    keys,         \* how many keys were ever generated
    complete,     \* what is in PUBLIC_DIR is one whole build
    cpc,          \* where the crawl is
    trusted,      \* the key of the manifest it read
    listed,       \* the digests of the index it verified
    marker,       \* last_applied_version in the database
    taken,        \* the stamps of the segments this crawl applied
    result,       \* ProviderResult.status
    quiet,        \* no build has touched PUBLIC_DIR since it began
    builds, deaths

disk == <<private_key, public, keys, complete>>
builder == <<bpc, key, stamp, turn, open, builds>>
crawler == <<cpc, trusted, listed, marker, taken, result>>
vars == <<disk, builder, crawler, quiet, deaths>>

TypeOK ==
    /\ private_key \in Nat \union {None, Torn}
    /\ DOMAIN public = Files
    /\ \A f \in Files : public[f] \in Documents(f) \union {None, Torn}
    /\ bpc \in {"idle", "load", "create", "write"}
    /\ key \in Nat /\ stamp \in Nat /\ keys \in Nat
    /\ turn \in 1..(Latest + 2)
    /\ open \in BOOLEAN /\ complete \in BOOLEAN /\ quiet \in BOOLEAN
    /\ cpc \in {"idle", "manifest", "index", "segment"}
    /\ trusted \in Nat
    /\ listed \in [Segments -> Nat]
    /\ marker \in 0..Latest
    /\ taken \subseteq Nat
    /\ result \in {"ok", "up-to-date", "failed", None}
    /\ builds \in 0..MaxBuilds /\ deaths \in 0..MaxDeaths

Uniform(n) == [v \in Segments |-> n]

(* What the repository ships: the output of a build whose private key was  *)
(* not committed, numbered 0.                                              *)
Shipped == [f \in Files |->
    IF f = Index THEN [key |-> 0, digest |-> Uniform(0)]
    ELSE IF f = Manifest THEN [key |-> 0] ELSE [stamp |-> 0]]
Nothing == [f \in Files |-> None]

Init ==
    /\ private_key = None
    /\ public \in {Shipped, Nothing}
    /\ complete = (public = Shipped)
    /\ bpc = "idle" /\ turn = 1 /\ open = FALSE
    /\ key = 0 /\ stamp = 0 /\ keys = 0
    /\ cpc = "idle" /\ trusted = 0 /\ listed = Uniform(0)
    /\ marker = 0 /\ taken = {} /\ result = None
    /\ quiet = FALSE
    /\ builds = 0 /\ deaths = 0

---------------------------------------------------------------------------
(* build() *)

(* Mutant: the manifest before the index. *)
OrderManifestFirst == [n \in 1..(Latest + 2) |->
    IF n \in Segments THEN n ELSE IF n = Latest + 1 THEN Manifest ELSE Index]
(* The segments, then the index that lists them, then the manifest. *)
Order == [n \in 1..(Latest + 2) |->
    IF n \in Segments THEN n ELSE IF n = Latest + 1 THEN Index ELSE Manifest]

(* Mutant: the segments are stamped again to be hashed. *)
ListedRestamped == Uniform(stamp + 1)
(* The digests of the bytes that were written. *)
Listed == Uniform(stamp)

Document(f) ==
    IF f = Index THEN [key |-> key, digest |-> Listed]
    ELSE IF f = Manifest THEN [key |-> key] ELSE [stamp |-> stamp]

(* segment_one(), segment_two(): a second has passed since, or not. *)
Compose ==
    /\ bpc' = "write" /\ turn' = 1 /\ open' = FALSE
    /\ stamp' \in {stamp, stamp + 1}

Build ==
    /\ bpc = "idle" /\ builds < MaxBuilds
    /\ bpc' = "load"
    /\ UNCHANGED <<disk, key, stamp, turn, open, builds, crawler, quiet, deaths>>

LoadKey ==
    /\ bpc = "load" /\ private_key \in Nat
    /\ key' = private_key
    /\ Compose
    /\ UNCHANGED <<disk, builds, crawler, quiet, deaths>>

(* load_pem_private_key raises, and nothing in build() catches it. *)
LoadKeyFails ==
    /\ bpc = "load" /\ private_key = Torn
    /\ bpc' = "idle"
    /\ UNCHANGED <<disk, key, stamp, turn, open, builds, crawler, quiet, deaths>>

(* Mutant: a key of its own for each build. *)
KeyIsMissingAlways == private_key # Torn
(* PRIVATE_KEY_PATH.exists() *)
KeyIsMissing == private_key = None

CreateKey ==
    /\ bpc = "load" /\ KeyIsMissing
    /\ keys' = keys + 1
    /\ key' = keys + 1
    /\ private_key' = Torn
    /\ bpc' = "create"
    /\ UNCHANGED <<public, complete, stamp, turn, open, builds, crawler, quiet, deaths>>

SaveKey ==
    /\ bpc = "create"
    /\ private_key' = key
    /\ Compose
    /\ UNCHANGED <<public, keys, complete, key, builds, crawler, quiet, deaths>>

OpenFile ==
    /\ bpc = "write" /\ ~open
    /\ public' = [public EXCEPT ![Order[turn]] = Torn]
    /\ open' = TRUE
    /\ complete' = FALSE /\ quiet' = FALSE
    /\ UNCHANGED <<private_key, keys, bpc, key, stamp, turn, builds, crawler, deaths>>

(* Mutant: the loop goes on past the last file. *)
IsLastTooLate == turn = Latest + 3
IsLast == turn = Latest + 2

WriteFile ==
    /\ bpc = "write" /\ open
    /\ public' = [public EXCEPT ![Order[turn]] = Document(Order[turn])]
    /\ open' = FALSE
    /\ IF IsLast
       THEN /\ bpc' = "idle" /\ turn' = 1
            /\ complete' = TRUE /\ builds' = builds + 1
       ELSE /\ turn' = turn + 1
            /\ UNCHANGED <<bpc, complete, builds>>
    /\ UNCHANGED <<private_key, keys, key, stamp, crawler, quiet, deaths>>

BuildDies ==
    /\ bpc # "idle" /\ deaths < MaxDeaths
    /\ bpc' = "idle" /\ turn' = 1 /\ open' = FALSE
    /\ deaths' = deaths + 1
    /\ UNCHANGED <<disk, key, stamp, builds, crawler, quiet>>

(* No build succeeds until someone deletes a key file that was torn. *)
TornKeyDeleted ==
    /\ bpc = "idle" /\ private_key = Torn
    /\ private_key' = None
    /\ UNCHANGED <<public, keys, complete, builder, crawler, quiet, deaths>>

---------------------------------------------------------------------------
(* A crawl of these files, one read of a file per step.                    *)

IsWhole(f) == public[f] \notin {None, Torn}

CrawlerRests == UNCHANGED <<disk, builder, quiet, deaths>>

Start ==
    /\ cpc = "idle"
    /\ cpc' = "manifest"
    /\ result' = None /\ taken' = {}
    /\ quiet' = complete
    /\ UNCHANGED <<disk, builder, trusted, listed, marker, deaths>>

(* The visit ends. *)
End(status) ==
    /\ cpc' = "idle"
    /\ result' = status

(* FetchError or VerificationError, for a file that is not what it should  *)
(* be: missing, torn, signed by another key, of another digest.            *)
Refuse ==
    /\ End("failed")
    /\ UNCHANGED <<trusted, listed, marker, taken>>

ReadManifest ==
    /\ cpc = "manifest"
    /\ \/ /\ IsWhole(Manifest)
          /\ trusted' = public[Manifest].key
          /\ cpc' = "index"
          /\ UNCHANGED <<listed, marker, taken, result>>
       \/ ~IsWhole(Manifest) /\ Refuse
    /\ CrawlerRests

IndexVerifies == IsWhole(Index) /\ public[Index].key = trusted

ReadIndex ==
    /\ cpc = "index"
    /\ \/ /\ IndexVerifies
          /\ listed' = public[Index].digest
          /\ IF marker = Latest THEN End("up-to-date")
                                ELSE cpc' = "segment" /\ UNCHANGED result
          /\ UNCHANGED <<trusted, marker, taken>>
       \/ ~IndexVerifies /\ Refuse
    /\ CrawlerRests

(* Mutant: whatever parses is applied. *)
DigestNotChecked(v) == IsWhole(v)
(* verify_digest *)
DigestMatches(v) == IsWhole(v) /\ public[v].stamp = listed[v]

(* Fetched, verified and applied; the index lists every version. *)
ReadSegment ==
    /\ cpc = "segment"
    /\ LET v == marker + 1 IN
       \/ /\ DigestMatches(v)
          /\ marker' = v
          /\ taken' = taken \union {public[v].stamp}
          /\ IF v = Latest THEN End("ok") ELSE UNCHANGED <<cpc, result>>
          /\ UNCHANGED <<trusted, listed>>
       \/ ~DigestMatches(v) /\ Refuse
    /\ CrawlerRests

CrawlDies ==
    /\ cpc # "idle" /\ deaths < MaxDeaths
    /\ cpc' = "idle"
    /\ deaths' = deaths + 1
    /\ UNCHANGED <<disk, builder, trusted, listed, marker, taken, result, quiet>>

BuildStep ==
    \/ Build \/ LoadKey \/ LoadKeyFails \/ CreateKey \/ SaveKey
    \/ OpenFile \/ WriteFile
CrawlStep == Start \/ ReadManifest \/ ReadIndex \/ ReadSegment

Next == BuildStep \/ BuildDies \/ TornKeyDeleted \/ CrawlStep \/ CrawlDies

Spec == Init /\ [][Next]_vars

(* A build that was killed is run again, after someone has deleted the key *)
(* it may have torn; crawls are scheduled again and again.                 *)
FairSpec == Spec /\ WF_vars(BuildStep) /\ SF_vars(TornKeyDeleted) /\ WF_vars(CrawlStep)

---------------------------------------------------------------------------
SignedByKeyOnDisk == IsWhole(Index) /\ public[Index].key = private_key

(* A manifest that advertises the key on disk never meets an index signed  *)
(* by another: the index is written first.                                 *)
ManifestIsPublishedLast ==
    IsWhole(Manifest) /\ public[Manifest].key = private_key =>
        public[Index] \in {None, Torn} \/ SignedByKeyOnDisk

(* "Reuse the existing key if present, so regenerating does not invalidate *)
(* it": once an index carries the signature of the key on disk, so does    *)
(* every index written later.                                              *)
RegeneratingKeepsTheKey ==
    [][SignedByKeyOnDisk =>
          private_key' = private_key /\ (public'[Index] = Torn \/ SignedByKeyOnDisk')]_vars

(* The segments one crawl applies are of one build, whatever was replaced  *)
(* while it ran.                                                           *)
OneBuildPerCrawl == \A a, b \in taken : a = b

(* A crawl that begins on the output of a whole build, and is left alone,  *)
(* does not fail.                                                          *)
QuietCrawlSucceeds == quiet => result # "failed"

(* Torn files, half replaced sets of files and even a torn key pass: in    *)
(* the end the crawler has every segment.                                  *)
CatchUp == <>[](marker = Latest)
=============================================================================
