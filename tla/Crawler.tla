------------------------------ MODULE Crawler ------------------------------
(***************************************************************************)
(* crawler/crawler.py with the decisions of verifier.py and models.py: one *)
(* or several crawler processes, started again and again by a scheduler    *)
(* (main.py), sharing one database and crawling providers that publish     *)
(* while they are being crawled.                                           *)
(*                                                                         *)
(* A process is where pc[c] says:                                          *)
(*   manifest -> state -> index -> (segment -> apply)* -> next provider    *)
(*   with "record" for the explicit record_crawl_result calls, "exited"    *)
(*   when run() returned and "aborted" when an exception left it.          *)
(* Every network reply and every database call is a step of its own, so    *)
(* publishing, failing, dying and other processes happen in between.       *)
(*                                                                         *)
(* A signature cannot be forged and a digest has one preimage: a document  *)
(* that passes the signature check is one some provider signed, current    *)
(* or old, and bytes that pass the digest check are the file itself.       *)
(***************************************************************************)
EXTENDS CatalogTables

CONSTANTS
    Procs,         \* crawler processes on one database
    Config,        \* the enabled providers, in configuration order
    KeyOf,         \* [Providers -> Keys]: providers may share a key_id
    Keys,
    Content,       \* [Digests -> the Segment the bytes parse to, or None]
    Files,         \* Files[p][v]: digest of the file p publishes as segment v
    Publications,  \* Publications[p]: the index payloads p signs, in order
    Inventory,     \* Inventory[p][v]: p's own item table after its segment v
    Flaky,         \* providers whose fetches may fail forever
    MaxFaults,     \* bound: failures, stale replies and crashes elsewhere
    Unhandled,     \* steps that may raise outside the CrawlerError hierarchy
    SqlIntMax      \* 2^63 - 1: the largest integer sqlite3 can bind

(* models.IndexPayload: which segments it lists, and its own number. *)
IndexPayload == [provider_id : Providers, key_id : Keys,
                 version : Versions, segments : SUBSET Versions]

(* verify_digest and Segment.from_dict find segment v of p in these bytes. *)
IsSegment(digest, p, v) ==
    /\ Content[digest] # None
    /\ Content[digest].provider_id = p
    /\ Content[digest].version = v

ASSUME ProvidersAssumption ==
    /\ Config \in Seq(Providers) /\ Config # <<>>
    /\ KeyOf \in [Providers -> Keys]
    /\ Content \in [Digests -> Segment \union {None}]
    /\ Files \in [Providers -> Seq(Digests)]
    /\ Publications \in [Providers -> Seq(IndexPayload)]
    /\ \A p \in Providers : \A k \in DOMAIN Publications[p] :
          /\ Publications[p][k].provider_id = p
          /\ Publications[p][k].key_id = KeyOf[p]
          /\ Publications[p][k].segments \subseteq DOMAIN Files[p]

(* Inventory is what applying p's files to an empty table one by one gives. *)
ASSUME InventoryAssumption ==
    \A p \in Providers :
        /\ Inventory[p][0] = NoRows
        /\ \A v \in DOMAIN Files[p] :
              IsSegment(Files[p][v], p, v) =>
                  Inventory[p][v] = Merge(Inventory[p][v - 1], Content[Files[p][v]])

ASSUME BoundsAssumption ==
    /\ Flaky \subseteq Providers
    /\ MaxFaults \in Nat
    /\ SqlIntMax \in Nat
    /\ None \notin Keys /\ None \notin IndexPayload

VARIABLES
    catalog_items, provider_state, applied_segments,  \* the database
    published,  \* how many index payloads each provider has published
    faults,     \* how many of the MaxFaults have happened
    pc,         \* where each process is
    manifest,   \* the manifest it verified
    last,       \* state.last_applied_version as it read it
    index,      \* the index payload it verified, or None
    pending,    \* the versions _select_pending_segments chose, still to apply
    segment,    \* digest of the segment it verified and is about to apply
    result,     \* the ProviderResult being built
    report      \* CrawlReport.results: the providers it is done with

tables == <<catalog_items, provider_state, applied_segments>>
world == <<published, faults>>
crawl == <<manifest, last, index, pending, segment, result>>
vars == <<tables, world, pc, crawl, report>>

DB == INSTANCE Catalog WITH
    Segments <- {Content[d] : d \in Digests} \ {None},
    IndexVersions <- Versions

Working == {"manifest", "state", "index", "segment", "apply", "record"}
Resting == {"idle", "exited", "aborted"}

Manifest(p) == [provider_id |-> p, key_id |-> KeyOf[p]]
Result == [provider_id : Providers, status : Statuses,
           index_version : Versions \union {None}, segments_applied : SUBSET Versions]

TypeOK ==
    /\ DB!TypeOK
    /\ published \in [Providers -> Nat]
    /\ \A p \in Providers : published[p] <= Len(Publications[p])
    /\ faults \in 0..MaxFaults
    /\ pc \in [Procs -> Working \union Resting]
    /\ manifest \in [Procs -> {Manifest(p) : p \in Providers} \union {None}]
    /\ last \in [Procs -> Nat]
    /\ index \in [Procs -> IndexPayload \union {None}]
    /\ pending \in [Procs -> SUBSET Versions]
    /\ segment \in [Procs -> Digests \union {None}]
    /\ result \in [Procs -> Result \union {None}]
    /\ report \in [Procs -> Seq(Result)]

NewResult(p) == [provider_id |-> p, status |-> "ok",
                 index_version |-> None, segments_applied |-> {}]

Init ==
    /\ DB!Init
    /\ published = [p \in Providers |-> 0]
    /\ faults = 0
    /\ pc = [c \in Procs |-> "idle"]
    /\ manifest = [c \in Procs |-> None]
    /\ last = [c \in Procs |-> 0]
    /\ index = [c \in Procs |-> None]
    /\ pending = [c \in Procs |-> {}]
    /\ segment = [c \in Procs |-> None]
    /\ result = [c \in Procs |-> None]
    /\ report = [c \in Procs |-> <<>>]

---------------------------------------------------------------------------
(* What the code computes. *)

(* run(): the provider in turn. *)
Provider(c) == Config[Len(report[c]) + 1]

LastApplied(p) == DB!LastApplied(p)

(* Mutant: segments sorted the other way round. *)
EarliestDescending(versions) == CHOOSE v \in versions : \A w \in versions : w <= v

(* The segment whose turn it is: the index sorts them by version. *)
Earliest(versions) == CHOOSE v \in versions : \A w \in versions : v <= w

VerifyManifest(document, p) == document.provider_id = p

(* Mutants: the boundary one off, to either side. *)
VerifyIndexOneOlder(payload, m, last_applied) ==
    /\ payload.key_id = m.key_id
    /\ payload.provider_id = m.provider_id
    /\ payload.version + 1 >= last_applied
VerifyIndexNewerOnly(payload, m, last_applied) ==
    /\ payload.key_id = m.key_id
    /\ payload.provider_id = m.provider_id
    /\ payload.version > last_applied

(* The signature check, the key and identity checks and the rollback check. *)
VerifyIndex(payload, m, last_applied) ==
    /\ payload.key_id = m.key_id
    /\ payload.provider_id = m.provider_id
    /\ payload.version >= last_applied

(* Mutants: no stop at the first gap, and one segment per crawl. *)
PendingPastGaps(segments, last_applied) == {v \in segments : v > last_applied}
PendingNextOnly(segments, last_applied) == {v \in segments : v = last_applied + 1}

(* _select_pending_segments: from last_applied + 1 up to the first gap. *)
Pending(segments, last_applied) ==
    {v \in segments : v > last_applied /\ (last_applied + 1)..v \subseteq segments}

(* The loop of that function over the versions of the index: what it has   *)
(* when it begins, and what one iteration makes of it.  Pending is all it  *)
(* returns (SelectionIsPending), and Earliest its order.                   *)
SelectFirst(last_applied) ==
    [pending |-> <<>>, expected |-> last_applied + 1, stopped |-> FALSE]
SelectNext(loop, version) ==
    IF loop.stopped \/ version < loop.expected THEN loop
    ELSE IF version # loop.expected THEN [loop EXCEPT !.stopped = TRUE]
    ELSE [loop EXCEPT !.pending = Append(@, version), !.expected = @ + 1]

VersionsOf(refs) == {refs[n] : n \in 1..Len(refs)}
Ascending(refs) == \A m, n \in 1..Len(refs) : m < n => refs[m] < refs[n]

(* The segment the loop of _crawl_provider is at, and the digest the       *)
(* signed index lists for it.                                              *)
Version(c) == Earliest(pending[c])
Ref(c) == Files[index[c].provider_id][Version(c)]

VerifySegment(c, digest) ==
    /\ digest = Ref(c)
    /\ IsSegment(digest, Provider(c), Version(c))

Fits(n) == IF n = None THEN TRUE ELSE n <= SqlIntMax

---------------------------------------------------------------------------
(* The environment's budget. *)

Fault(p) == IF p \in Flaky THEN UNCHANGED faults
            ELSE faults < MaxFaults /\ faults' = faults + 1
StorageFault == faults < MaxFaults /\ faults' = faults + 1

(* A reply for p: free if it is the genuine, current one, a fault if not. *)
Reply(p, genuine) == IF genuine THEN UNCHANGED faults ELSE Fault(p)

(* Steps of the process's control flow that several actions share. *)
Goto(c, step) == pc' = [pc EXCEPT ![c] = step]

Forget(c) ==
    /\ manifest' = [manifest EXCEPT ![c] = None]
    /\ last' = [last EXCEPT ![c] = 0]
    /\ index' = [index EXCEPT ![c] = None]
    /\ pending' = [pending EXCEPT ![c] = {}]
    /\ segment' = [segment EXCEPT ![c] = None]

(* _crawl_provider returns: on to the next provider, or out of run(). *)
Finish(c, r) ==
    /\ report' = [report EXCEPT ![c] = Append(@, r)]
    /\ Forget(c)
    /\ IF Len(report[c]) + 1 = Len(Config)
       THEN Goto(c, "exited") /\ result' = [result EXCEPT ![c] = None]
       ELSE /\ Goto(c, "manifest")
            /\ result' = [result EXCEPT ![c] = NewResult(Config[Len(report[c]) + 2])]

(* Mutant: no except clause, the run ends here. *)
FailedAborting(c) ==
    /\ Goto(c, "aborted")
    /\ UNCHANGED <<tables, published, manifest, last, index, pending, segment,
                   result, report>>

(* Mutant: no verdict, the provider is tried again. *)
FailedRetrying(c) ==
    /\ Goto(c, "manifest")
    /\ UNCHANGED <<tables, published, manifest, last, index, pending, segment,
                   result, report>>

(* The except clause of _crawl_provider: try to record the failure. *)
Failed(c) ==
    /\ result' = [result EXCEPT ![c].status = "failed"]
    /\ Goto(c, "record")
    /\ UNCHANGED <<tables, published, manifest, last, index, pending, segment, report>>

(* The process stops with no result for the provider it was crawling. *)
Stop(c, how) ==
    /\ Goto(c, how)
    /\ Forget(c)
    /\ result' = [result EXCEPT ![c] = None]
    /\ UNCHANGED <<tables, published, report>>

---------------------------------------------------------------------------
(* Providers *)

(* The provider replaces its index.json; new segment files are in place. *)
Publish(p) ==
    /\ published[p] < Len(Publications[p])
    /\ published' = [published EXCEPT ![p] = @ + 1]
    /\ UNCHANGED <<tables, faults, pc, crawl, report>>

---------------------------------------------------------------------------
(* One crawler process *)

(* The scheduler runs "main.py crawl". *)
Start(c) ==
    /\ pc[c] \in Resting
    /\ Goto(c, "manifest")
    /\ report' = [report EXCEPT ![c] = <<>>]
    /\ result' = [result EXCEPT ![c] = NewResult(Config[1])]
    /\ UNCHANGED <<tables, world, manifest, last, index, pending, segment>>

ManifestServed(c, q) ==
    /\ pc[c] = "manifest"
    /\ Reply(Provider(c), q = Provider(c))

AcceptManifest(c) == \E q \in Providers :
    /\ ManifestServed(c, q)
    /\ VerifyManifest(Manifest(q), Provider(c))
    /\ manifest' = [manifest EXCEPT ![c] = Manifest(q)]
    /\ Goto(c, "state")
    /\ UNCHANGED <<tables, published, last, index, pending, segment, result, report>>

RejectManifest(c) == \E q \in Providers :
    /\ ManifestServed(c, q)
    /\ ~VerifyManifest(Manifest(q), Provider(c))
    /\ Failed(c)

(* get_provider_state, before the index is fetched and never again. *)
ReadState(c) ==
    /\ pc[c] = "state"
    /\ last' = [last EXCEPT ![c] = LastApplied(Provider(c))]
    /\ Goto(c, "index")
    /\ UNCHANGED <<tables, world, manifest, index, pending, segment, result, report>>

(* Any payload signed so far may be served, by any host. *)
IndexServed(c, q, k) ==
    /\ pc[c] = "index"
    /\ k \in 1..published[q]
    /\ Reply(Provider(c), q = Provider(c) /\ k = published[q])

AcceptIndex(c) == \E q \in Providers : \E k \in DOMAIN Publications[q] :
    LET payload == Publications[q][k]
        chosen == Pending(payload.segments, last[c])
        found == [result[c] EXCEPT !.index_version = payload.version,
                                   !.status = IF chosen = {} THEN "up-to-date" ELSE @]
    IN  /\ IndexServed(c, q, k)
        /\ VerifyIndex(payload, manifest[c], last[c])
        /\ index' = [index EXCEPT ![c] = payload]
        /\ pending' = [pending EXCEPT ![c] = chosen]
        /\ result' = [result EXCEPT ![c] = found]
        /\ Goto(c, IF chosen = {} THEN "record" ELSE "segment")
        /\ UNCHANGED <<tables, published, manifest, last, segment, report>>

RejectIndex(c) == \E q \in Providers : \E k \in DOMAIN Publications[q] :
    /\ IndexServed(c, q, k)
    /\ ~VerifyIndex(Publications[q][k], manifest[c], last[c])
    /\ Failed(c)

(* Any file may be served for a segment URL. *)
SegmentServed(c, digest) ==
    /\ pc[c] = "segment"
    /\ Reply(Provider(c), digest = Ref(c))

AcceptSegment(c) == \E digest \in Digests :
    /\ SegmentServed(c, digest)
    /\ VerifySegment(c, digest)
    /\ segment' = [segment EXCEPT ![c] = digest]
    /\ Goto(c, "apply")
    /\ UNCHANGED <<tables, published, manifest, last, index, pending, result, report>>

RejectSegment(c) == \E digest \in Digests :
    /\ SegmentServed(c, digest)
    /\ ~VerifySegment(c, digest)
    /\ Failed(c)

(* FetchError, undecodable or malformed bytes, a bad signature; a provider *)
(* that has published nothing fails without any fault.                     *)
FetchFails(c) ==
    /\ pc[c] \in {"manifest", "index", "segment"}
    /\ Reply(Provider(c), published[Provider(c)] = 0)
    /\ Failed(c)

Apply(c) ==
    LET p == Provider(c)
        v == Version(c)
        applied == [result[c] EXCEPT !.segments_applied = @ \union {v}]
    IN  /\ pc[c] = "apply"
        /\ Fits(index[c].version)
        /\ DB!ApplySegment(p, Content[segment[c]], Ref(c), index[c].version)
        /\ UNCHANGED world
        /\ IF pending[c] = {v}
           THEN Finish(c, applied)
           ELSE /\ result' = [result EXCEPT ![c] = applied]
                /\ pending' = [pending EXCEPT ![c] = @ \ {v}]
                /\ segment' = [segment EXCEPT ![c] = None]
                /\ Goto(c, "segment")
                /\ UNCHANGED <<manifest, last, index, report>>

(* Mutant: the segment is counted as applied before it is. *)
ApplyFailsCounted(c) ==
    /\ pc[c] = "apply"
    /\ StorageFault
    /\ result' = [result EXCEPT ![c].status = "failed",
                                ![c].segments_applied = @ \union {Version(c)}]
    /\ Goto(c, "record")
    /\ UNCHANGED <<tables, published, manifest, last, index, pending, segment, report>>

(* StorageError: the database is locked or the disk is full. *)
ApplyFails(c) ==
    /\ pc[c] = "apply"
    /\ StorageFault
    /\ Failed(c)

Record(c) ==
    /\ pc[c] = "record"
    /\ Fits(result[c].index_version)
    /\ DB!RecordCrawlResult(Provider(c), result[c].status, result[c].index_version)
    /\ UNCHANGED world
    /\ Finish(c, result[c])

(* Recording "up-to-date" fails: the provider's visit is now a failed one. *)
RecordUpToDateFails(c) ==
    /\ pc[c] = "record" /\ result[c].status = "up-to-date"
    /\ StorageFault
    /\ Failed(c)

(* Recording "failed" fails too: best effort, swallowed. *)
RecordFailedFails(c) ==
    /\ pc[c] = "record" /\ result[c].status = "failed"
    /\ StorageFault
    /\ Finish(c, result[c])
    /\ UNCHANGED <<tables, published>>

(* sqlite3 raises OverflowError, which is not an sqlite3.Error. *)
Overflow(c) ==
    /\ pc[c] \in {"apply", "record"}
    /\ ~Fits(result[c].index_version)
    /\ Stop(c, "aborted")
    /\ UNCHANGED faults

(* Another exception the except clause does not name. *)
Escape(c) ==
    /\ pc[c] \in Unhandled
    /\ Fault(Provider(c))
    /\ Stop(c, "aborted")

(* The process is killed; what it committed stays. *)
Crash(c) ==
    /\ pc[c] \in Working
    /\ faults < MaxFaults /\ faults' = faults + 1
    /\ Stop(c, "idle")

(* Everything a running process does of its own accord. *)
Step(c) ==
    \/ Start(c)
    \/ AcceptManifest(c) \/ RejectManifest(c) \/ ReadState(c)
    \/ AcceptIndex(c) \/ RejectIndex(c)
    \/ AcceptSegment(c) \/ RejectSegment(c) \/ FetchFails(c)
    \/ Apply(c) \/ ApplyFails(c)
    \/ Record(c) \/ RecordUpToDateFails(c) \/ RecordFailedFails(c)
    \/ Overflow(c) \/ Escape(c)

Next == (\E p \in Providers : Publish(p)) \/ (\E c \in Procs : Step(c) \/ Crash(c))

Spec == Init /\ [][Next]_vars

(* The scheduler keeps starting crawls and a started crawl keeps going: a  *)
(* database call has a busy timeout, a silent host the timeout of a read.  *)
(* That a fetch ends is assumed of the hosts: none keeps one response      *)
(* going for ever without a byte of its body (EndsUnlessHeld of Fetcher).  *)
FairSpec == Spec /\ \A c \in Procs : WF_vars(Step(c))

---------------------------------------------------------------------------
(* The data and the progress marker *)

Sole == \A c, d \in Procs : c = d

MatchesMarker(p) == catalog_items[p] = Inventory[p][LastApplied(p)]

(* README "The key invariant": last_applied_version is never ahead of, or  *)
(* behind, the data: the rows of a provider are its own inventory at       *)
(* exactly that version.                                                   *)
CatalogMatchesMarker == \A p \in Providers : MatchesMarker(p)

(* The same once every crawl is over: what is left for readers is right.   *)
SettledCatalogMatchesMarker ==
    (\A c \in Procs : pc[c] \in Resting) => CatalogMatchesMarker

(* A process applies what the marker has passed since it read it. *)
ReplaysOld(c) ==
    /\ pc[c] = "apply"
    /\ Version(c) < LastApplied(Provider(c))
    /\ Apply(c)

(* With any number of processes, the rows of a provider cease to match its *)
(* marker in one way only: a process applies a segment older than the      *)
(* marker.  Applying the newest one again does no harm, nor does anything  *)
(* that happens to another provider.                                       *)
OnlyOldReplaysDiverge ==
    [][\A p \in Providers :
          MatchesMarker(p) =>
              MatchesMarker(p)' \/ \E c \in Procs : ReplaysOld(c) /\ Provider(c) = p]_vars

(* The catalog is a replica of its providers, each followed version by     *)
(* version: no skipped, repeated or reordered segment is ever visible.     *)
Follows == INSTANCE Replica WITH
    Latest <- [p \in Providers |-> Len(Files[p])],
    version <- [p \in Providers |-> LastApplied(p)]
Replication == Follows!Spec

(* The audit trail of a provider is an unbroken prefix of what it          *)
(* published, 1 up to the marker, each version once and with the digest of *)
(* the provider's own file: nothing forged, misplaced, foreign or stale    *)
(* was ever applied, whatever was served and however crawls interleave.    *)
AuditIsPrefix ==
    \A p \in Providers :
        applied_segments[p] = {[segment_version |-> v, digest |-> Files[p][v]] :
                                   v \in 1..LastApplied(p)}

(* Every row came from an upsert of its own provider's segment of the      *)
(* version the row names: nothing crosses from one provider to another.    *)
RowsAreGenuine ==
    \A p \in Providers, i \in Items :
        LET row == catalog_items[p][i] IN
        row # None =>
            /\ row.source_version \in 1..LastApplied(p)
            /\ \E k \in DOMAIN Content[Files[p][row.source_version]].upserts :
                  Content[Files[p][row.source_version]].upserts[k]
                      = [id |-> i, payload |-> row.payload]

(* One step moves one marker, by one: a process that read the marker long  *)
(* ago neither rewinds it nor makes it jump.                               *)
MarkerMovesByOne ==
    [][\A p \in Providers : LastApplied(p)' \in {LastApplied(p), LastApplied(p) + 1}]_vars

---------------------------------------------------------------------------
(* Index versions *)

(* For providers whose index number is at least that of every segment it   *)
(* lists, the index version the store remembers covers the applied data.   *)
IndexVersionCoversMarker ==
    \A p \in Providers :
        LastApplied(p) > 0 =>
            /\ provider_state[p].last_index_version # None
            /\ provider_state[p].last_index_version >= LastApplied(p)

(* The index a provider currently publishes is never taken for a rollback: *)
(* verify_index compares its number with the number of a segment.          *)
CurrentIndexIsAcceptable ==
    \A p \in Providers :
        published[p] > 0 =>
            VerifyIndex(Publications[p][published[p]], Manifest(p), LastApplied(p))

(* The index version the store remembers never goes backwards.             *)
IndexVersionNeverRewinds ==
    [][\A p \in Providers :
          LET old == DB!IndexSeen(provider_state[p])
              new == DB!IndexSeen(provider_state'[p])
          IN  old # None => new # None /\ new >= old]_vars

(* A process writes the number of an index that has been replaced since it *)
(* was served, or was an old one then.                                     *)
RecordsReplaced(c) ==
    LET p == Provider(c) IN
    /\ pc[c] \in {"apply", "record"}
    /\ result[c].index_version # None
    /\ result[c].index_version < Publications[p][published[p]].version
    /\ Apply(c) \/ Record(c)

(* It goes backwards in that way only, for a provider whose numbers never  *)
(* do: not by a failure, another provider, a crash or a lost write.        *)
OnlyReplacedIndexRewinds ==
    [][\A p \in Providers :
          LET old == IndexSeen(provider_state[p])
              new == IndexSeen(provider_state'[p])
          IN  old # None => \/ new # None /\ new >= old
                            \/ \E c \in Procs : RecordsReplaced(c) /\ Provider(c) = p]_vars

---------------------------------------------------------------------------
(* The report *)

(* A crawl that ran to its end, or to an exception nobody caught, has a    *)
(* result for every enabled provider: one bad provider stops no other.     *)
EveryProviderAttempted ==
    \A c \in Procs :
        pc[c] \in {"exited", "aborted"} =>
            /\ Len(report[c]) = Len(Config)
            /\ \A n \in DOMAIN report[c] : report[c][n].provider_id = Config[n]

(* Each segment a report counts as applied is in the audit trail, whatever *)
(* failed after it was committed.                                          *)
ReportNeverOverstates ==
    \A c \in Procs : \A n \in DOMAIN report[c] :
        report[c][n].segments_applied
            \subseteq AuditedVersions(applied_segments[report[c][n].provider_id])

(* A result that is not "failed" means the catalog took everything the     *)
(* index it reports had to offer next.                                     *)
SuccessMeansCaughtUp ==
    \A c \in Procs : \A n \in DOMAIN report[c] :
        LET r == report[c][n] IN
        r.status # "failed" =>
            \E k \in 1..published[r.provider_id] :
                LET payload == Publications[r.provider_id][k] IN
                /\ payload.version = r.index_version
                /\ LastApplied(r.provider_id) + 1 \notin payload.segments

(* The status in the database is that of the last result reported for a    *)
(* provider, failures included: they are recorded too.  Only that last     *)
(* write is best effort, and may be lost to a fault of the database.       *)
StatusAgreesWithReport ==
    \A c \in Procs : \A n \in DOMAIN report[c] :
        LET r == report[c][n] IN
        r.status # "failed" \/ faults = 0 =>
            provider_state[r.provider_id].last_status = r.status

---------------------------------------------------------------------------
(* Progress *)

(* How many steps a visit has before it at most. *)
StepsLeft(c) ==
    LET files == Len(Files[Provider(c)])
    IN  CASE pc[c] = "manifest" -> 2 * files + 6
          [] pc[c] = "state"    -> 2 * files + 5
          [] pc[c] = "index"    -> 2 * files + 4
          [] pc[c] = "segment"  -> 2 * (files - Version(c)) + 4
          [] pc[c] = "apply"    -> 2 * (files - Version(c)) + 3
          [] pc[c] = "record"   -> IF result[c].status = "failed" THEN 1 ELSE 2
          [] OTHER              -> 0

Locals(c) == <<pc[c], report[c], manifest[c], last[c], index[c], pending[c],
               segment[c], result[c]>>

(* A visit ends, and the next one begins, after a bounded number of steps: *)
(* no host can keep run() busy with one provider, by failing, by serving   *)
(* something else each time or by publishing while it is crawled.          *)
VisitsAreFinite ==
    [][\A c \in Procs : pc[c] \in Working =>
          \/ UNCHANGED Locals(c)
          \/ Len(report'[c]) = Len(report[c]) + 1
          \/ pc'[c] \in Resting
          \/ report'[c] = report[c] /\ 0 < StepsLeft(c)' /\ StepsLeft(c)' < StepsLeft(c)]_vars

(* Nothing the provider's current index offers next is still missing.      *)
CaughtUp(p) ==
    published[p] > 0 =>
        LET next == LastApplied(p) + 1 IN
        ~ /\ next \in Publications[p][published[p]].segments
          /\ IsSegment(Files[p][next], p, next)

(* Every provider whose faults end is caught up for good in the end,       *)
(* however the other providers misbehave.                                  *)
CatchUp == \A p \in Providers \ Flaky : <>[]CaughtUp(p)
=============================================================================
