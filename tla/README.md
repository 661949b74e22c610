# Formal model of the decentralized catalog crawler

TLA+ specifications, TLC model-checking runs and TLAPS proofs for the crawler in
`src/`: a program that, started again and again by a scheduler, fetches a signed
manifest, a signed index and signed *segments* (deltas) from several independent
providers, verifies them and merges them into one SQLite catalog.

Contents: [the system](#the-system) - [modules](#modules) -
[what is assumed](#what-is-assumed) - [runs](#runs) - [findings](#findings) -
[proofs](#proofs) - [not modelled](#not-modelled) - [plan](#plan).

## The system

| Part | Source | State | Operations | Modelled in |
|---|---|---|---|---|
| Store | `crawler/storage.py` | tables `catalog_items`, `provider_state`, `applied_segments` in one SQLite file (WAL) | `apply_segment`, `record_crawl_result` (each one `BEGIN IMMEDIATE` transaction); `get_provider_state` and other reads | `CatalogTables`, `Catalog`, `CatalogStore` |
| Crawl | `crawler/crawler.py` | one `ProviderResult` per provider; locals of `_crawl_provider` | `run`, `_crawl_provider`, `_select_pending_segments`, `_apply_segment` | `Crawler`, `Replica` |
| Verification | `crawler/verifier.py`, `crawler/models.py` | none | `verify_manifest`, `verify_index`, `verify_digest`, `from_dict` parsers | `Crawler` (decisions only) |
| Fetcher | `crawler/fetcher.py` | the loop's attempt, the buffer | `fetch` with retries, backoff and a size cap, `_read_path` | `Fetcher`; `Crawler` uses its outcome |
| Publisher | `mock_provider/generate_mock_data.py` | the private key file, the files a provider serves | `build`, `load_or_create_private_key` | `Publishing`, file by file; `Crawler` (`Publish`, one step) |
| Command line | `main.py` | the connection, the exit code | `main`, `crawl`, `list`, `status` | `CommandLine`; `Crawler` starts it again and again |
| Configuration | `crawler/config.py`, `config*.yaml` | ids seen so far | `load_config`, `_parse_settings`, `_parse_providers` | `CommandLine`; `Config` of `Crawler` is its result |
| Canonical JSON, errors, demo, tests | the rest | none | pure | not modelled |

**How the parts interact.** `main.py crawl` opens the store, builds a `Crawler`
and calls `run()`, which visits the enabled providers in turn. A visit fetches
and verifies the manifest, reads the provider's *progress marker*
(`last_applied_version`) from the store, fetches and verifies the index, selects
the segments from marker + 1 up to the first gap, and for each of them fetches,
verifies and applies. The marker is read *once* per visit. Each applied segment is
one transaction that changes the rows, the audit row and the marker. Exceptions
of the `CrawlerError` hierarchy end the visit and are recorded as "failed"; any
other exception leaves `run()`. Nothing but the database survives a process, and
nothing stops two processes from running on one database.

**What is hard.** Providers publish while they are crawled; hosts may serve any
old, foreign or broken file at each request; a process may die between any two
statements; two scheduled crawls may overlap; an exception may or may not be one
the `except` clause names; and one marker, one index number and one audit table,
written by different statements, must keep telling the same story. Below that, a
host may answer one byte at a time or never come to its answer, a body may stall
halfway and be asked for again, a publisher overwrites in place the files a crawl is reading, and an
interrupt may fall between any two calls of the command line.

**What makes each part correct.**

* Store: operations are atomic whatever interleaves with them; the three tables
  never disagree; the marker never rewinds.
* Crawl, single process: of each provider the catalog holds *exactly* its
  inventory at the marker's version, and follows it version by version.
* Crawl, any number of processes: what was applied is an unbroken prefix of the
  provider's own segments; rows never cross between providers.
* Report: every provider gets a result; a segment counted is a segment applied;
  a success is one.
* Verification: old indexes are refused, the current one never is.
* Progress: a provider is caught up in the end, whatever the others do.
* Fetch: it gives all of one response or the error its failures call for, never holds
  much more of a body than the cap, and nothing but a host that keeps one response
  going without a byte of its body keeps it from ending.
* Publisher: key, index and manifest stay together; a crawl that meets half a
  build fails cleanly and the next one succeeds.
* Command line: nothing starts on a faulty configuration, exit code 0 vouches for
  every enabled provider, and the database is closed on the way out.

## Modules

| Module | Models | Notes |
|---|---|---|
| `CatalogTables` | the tables as values, each SQL statement as an operator | a table is a function of the provider id; `Merge` is a whole segment (all upserts, then all removals, in list order) in closed form |
| `Catalog` | **abstract store**: each operation one step | the promise of `storage.py`, and the store `Crawler` calls |
| `CatalogStore` | the store, one SQL statement per step | several connections, busy write lock, exceptions, kills; `Atomicity` says it implements `Catalog` |
| `Replica` | **abstract crawl**: each provider's slice follows its own inventory by one version at a time | the README's "key invariant" as a specification |
| `Crawler` | `crawler.py` and the decisions of `verifier.py`, `models.py` | several processes over `Catalog`; `Replication` says one of them implements `Replica` |
| `Fetcher` | one call of `Fetcher.fetch` | one step is one read of the socket, one pause, one call of the file system; how long each takes is left out |
| `Publishing` | `generate_mock_data.py`, and a crawl of the files it overwrites | files are missing, torn or whole |
| `CommandLine` | one invocation: `main.py`, `load_config`, the constructor of `CatalogStore` | from the parser to the exit code |
| `MCCatalogStore`, `MCCrawler`, `MCPublishing`, `MCCommandLine` | instances for TLC | values of the constants only; `Fetcher.cfg` needs none |
| `CatalogTablesProofs`, `CatalogProofs`, `CatalogStoreProofs`, `CrawlerProofs`, `CrawlerDataProofs`, `FetcherProofs`, `PublishingProofs`, `CommandLineProofs` | theorems | see [proofs](#proofs) |

The modules meet at what one promises and another relies on. `Crawler` calls
`Catalog`, which `CatalogStore` implements statement by statement. A `fetch` of
`Crawler` is bytes or an error, once it ends; `Fetcher` checks what can keep it from
ending.
`Publishing` takes `Publish` of `Crawler` apart. `CommandLine` ends in the
configuration `Crawler` has as a constant, and takes of each visit what `Crawler`
shows it can end in.

Operators whose comment starts with *Mutant* are the plausible mistakes each
property is tried against: with the mutant in place of the definition below it,
the run that checks the property finds it violated.

### CatalogStore

`tx[c]` is connection c's private copy of the tables between `BEGIN IMMEDIATE`
and the end of its transaction, `done[c]` the number of statements executed.
`Call` enters `apply_segment` or `record_crawl_result` with any arguments;
`Begin`/`BeginBusy` are the two outcomes of `BEGIN IMMEDIATE`; `UpsertItem`,
`RemoveItem`, `WriteAudit`, `WriteMarker`, `WriteResult` are one SQL statement
each; `Commit` publishes the copy; `Rollback` is the context manager's `except`
branch, for any exception at any statement (an index version beyond 64 bits,
`SqlIntMax`, can only go that way); `Kill` is the process dying, with SQLite's
recovery of the committed state.

### Crawler

`pc[c]` is where process c is in `_crawl_provider`: `manifest`, `state`, `index`,
then `segment`, `apply` for each pending version, `record` for the explicit
`record_crawl_result`, and `idle`/`exited`/`aborted` when it is not running. The
other variables are the locals: `manifest`, `last` (the marker as read), `index`,
`pending`, `segment`, the `ProviderResult` under construction and the
`CrawlReport`. One step is one reply of the network or one call of the database,
with the computation up to the next one; so publishing, other processes, failures
and crashes fall everywhere in between.

| Action | Code |
|---|---|
| `Start` | `cmd_crawl`, `run()` begins (`main.py:59`) |
| `AcceptManifest`, `RejectManifest` | `_load_manifest`, `verify_manifest` |
| `ReadState` | `get_provider_state`, once per visit (`crawler.py:122`) |
| `AcceptIndex`, `RejectIndex` | `_load_index`, `verify_index`, `_select_pending_segments`, the "up-to-date" return |
| `AcceptSegment`, `RejectSegment` | fetch and `verify_digest`, `Segment.from_dict` in `_apply_segment` |
| `Apply`, `ApplyFails` | `apply_segment` succeeds, or raises `StorageError` |
| `Record`, `RecordUpToDateFails`, `RecordFailedFails` | `record_crawl_result`, in the body or, swallowing errors, in the `except` clause |
| `FetchFails` | `FetchError`, undecodable or malformed bytes, bad signature |
| `Overflow`, `Escape` | exceptions the `except` clause does not name: `OverflowError` of `sqlite3`, and any other, in the steps listed in `Unhandled` |
| `Crash` | the process is killed |
| `Publish` | the provider replaces its index |

`RejectX`, `FetchFails`, `ApplyFails` and `RecordUpToDateFails` all end in
`Failed`, the `except` clause of `_crawl_provider`; `Finish` and `Forget` are the
return to the loop of `run()`.

### Fetcher

`pc` is `get`, `body` or `sleep` in `_fetch_http`, `stat` or `read` in `_read_path`,
or `done`. `gathered` counts the bytes `iter_content` has read and not yielded yet;
`chunks` is the buffer, reduced to its size and to which attempts its bytes came in;
`sent`, `requests` and `troubles` record what happened. `requests` applies the timeout
to each read of the socket, so a step is one read, and a silence ends in `TimedOut` or
`Stalled`; a server that goes on talking is not timed out. `idle` flips at each read
that brings nothing of the body, so that TLC sees an unbroken series of them as steps.

| Action | Code |
|---|---|
| `IdleRead` | a read that brings no byte of the body: inside `session.get` (`fetcher.py:79-83`) redirects with their whole bodies, "100 Continue" replies, headers; inside `iter_content` the lengths and trailers of chunked framing, compressed data that decodes to nothing |
| `TimedOut`, `ConnectionError`, `RetryableStatus` | the failures after which the loop sleeps and goes on (`fetcher.py:84-98`) |
| `RequestError`, `RefusingStatus` | the last `except` clause; a status from 400 on |
| `Response` | the check of `Content-Length`, a new buffer |
| `ReadBody` | a read inside `iter_content` that adds to the chunk it is gathering |
| `ReadChunk` | `iter_content` yields, the loop extends the buffer and looks at the cap (`fetcher.py:123-126`) |
| `EndOfBody` | the end of the body, after the last yield |
| `Stalled`, `Broken` | a body that fails: a read timeout or an SSL error is a `ConnectionError` to `requests` and retried, a lost connection is a `ChunkedEncodingError` and is not |
| `Wake` | the end of `_sleep_before_retry`, the next attempt |
| `Stat`, `ReadFile`, `Unreadable` | `_read_path`, two calls of the file system |
| `FileChanges` | another process writes or deletes the file |

### Publishing

`public` is the directory: each file is missing, `Torn` (truncated and not filled)
or a document; a segment is its stamp, an index the key that signed it and the
digests it lists, a manifest the key it advertises. `Build`, `LoadKey`,
`LoadKeyFails`, `CreateKey`, `SaveKey` are the start of `build()`; `OpenFile` and
`WriteFile` are the two halves of one `write_bytes`, in the order `Order`;
`BuildDies` is a kill at any point. `Start`, `ReadManifest`, `ReadIndex`,
`ReadSegment` are a crawl that reads one file per step, and `CrawlDies` its kill.
`TornKeyDeleted` is the one act of an operator: a key file torn by a kill makes
every later build raise until someone deletes it.

### CommandLine

`pc` is the phase of `main()`: `read`, `numbers`, `providers` are `load_config`,
`open` the constructor of the store, `run` the command, `close` its `finally`
clause, `exit` the end. `ReadFile`, `CheckNumber`, `ParseProvider` are one check
each, with `NumbersDone` and `ProvidersDone` between the lists; `Open`, `OpenFails`
and `Opened` go through the four calls of the constructor, of which two turn
`sqlite3.Error` into `StorageError`; `SkipDisabled`, `Visit`, `VisitRaises`,
`Report` are the crawl, `Query` is `list` or `status`; `Close` and `Interrupt`
are what they say. Exit codes: 2 for `ConfigError`, `StorageError` and the parser, 1
for an uncaught exception, a failed provider or an interrupted command, 130 for an
interrupt nothing catches.

## What is assumed

* A signature cannot be forged and a digest has one preimage: a document that
  passes the signature check is one some provider signed at some time, and bytes
  that pass the digest check are that file. Documents are therefore members of
  the published ones (`Publications`), bytes are digests.
* A provider that republished a version would do so under the same digest:
  `Files[p][v]` is the one file p publishes as segment v. (The crawler never looks
  back at a version it applied, so it would not notice a replacement.)
* A malformed index is one case of `FetchFails`; a well-formed one lists each
  version once (`IndexPayload.from_dict` checks it), with the files in place.
* Segment content is *not* assumed sound: a provider may sign a file that claims
  another version or provider than its index says (`g2` in the runs).
* The enabled providers are a non-empty sequence. (With none, `run` returns an
  empty report.)
* SQLite does what its documentation says in WAL mode, which `_configure` asks for:
  one writer, snapshot reads, a failed `COMMIT` rolled back.
* `Inventory[p][v]` is defined by applying p's files 1..v to an empty table
  (`InventoryAssumption`); `MCInventory` is a table written out, and TLC holds each
  entry of it against `Merge` on each run.
* `requests` behaves as its source does from the version required on (2.31): a read
  timeout in the middle of a body arrives as `ConnectionError`, a lost connection or
  undecodable data as another `RequestException`, and a body shorter than announced
  may be returned as complete. A chunk `iter_content` yields has at most `MaxChunk`
  bytes (64 KiB, or what they decode to). Name resolution, which has no timeout, is
  outside.
* For the liveness of `Crawler` only: no host keeps one fetch going for ever. The code
  does not ensure it. The number of redirects is limited, but `requests` reads the
  body of each of them whole, inside `session.get` and past the cap; interim replies,
  chunk-size lines and trailers are not counted at all. `EndsUnlessHeld` says that
  nothing else can keep a fetch from ending.
* Every build of the publisher writes the same items, so a segment is its time
  stamp and the stamp stands for its digest; two builds within one second write the
  same bytes. All builds write as many segments, so the rollback check passes.
* The files under `mock_provider/public` that the repository ships were made with a
  private key it does not ship: `Publishing` starts there, or with no files.
* The scheduler's view of an interrupt outside `main()`'s `except` is exit code 130.

**Fairness.** `FairSpec` of `Crawler` adds weak fairness of `Step(c)`, per
process: each database call has a busy timeout, each fetch ends (assumed of the hosts
as said above; silence, failures and endless bodies are ruled out by
`EndsUnlessHeld`), so a running process goes on, and
the scheduler starts it again when it has ended. Nothing says *which* step: a
provider's replies may fail for ever (`Flaky`), and publishing is not fair.
`Fetcher` has weak fairness of `Step` as a whole: each read of the socket ends, if
only by its timeout, and so do a pause and a call of the file system; nothing is
said of how the server answers or that it comes to an end, and `FileChanges` is not
fair. `Publishing` has weak
fairness of `BuildStep` (a build that was killed is run again; at most `MaxBuilds`
are, after which the publisher rests) and of `CrawlStep` (crawls are scheduled again
and again), and strong fairness of `TornKeyDeleted`, because builds that raise on
the torn key keep disabling it for a moment. `CommandLine` has no liveness.

## Runs

Bounds. `MaxFaults` bounds the failures, stale or foreign replies, and crashes of
providers outside `Flaky` over a whole behaviour; three are enough for "fail,
fail again while recording, then crash on the retry". Two providers, sharing item
ids and a signing key, are the smallest number with something to confuse; three
segments give a gap, a filled gap and a segment after it; the second of them
overwrites and removes what the first wrote, so that any skipped, repeated or
reordered segment changes the table. Two processes or connections are enough for
each pairwise race the code can have: processes meet only in the database, whose
write lock admits one. Symmetry over connections and processes is used in runs with
safety properties only, and no expression of the specifications orders them.

| Run | States | Question and answer |
|---|---|---|
| `store` | 53,019 | Two connections interleave the statements of any calls. The committed database moves only by whole operations (`Atomicity`); marker, audit trail and rows agree (`MarkerIsNewestAudit`, `RowsAreAudited`, `OneAuditPerVersion`); one writer, whose copy is exactly the committed tables plus its executed statements (`Isolation`: `SingleWriter` and `TransactionIsPrefix`); `MarkerNeverRewinds`. |
| `crawl` | 49,249 | One process at a time under failures, stale and foreign replies, exceptions nobody names (`Unhandled`, an index number too big for SQLite) and crashes. The catalog equals each provider's inventory at its marker (`CatalogMatchesMarker`) and follows it version by version (`Replication`: `Crawler` implements `Replica`); the stored index version covers the marker, and for indexes numbered as the repository's publisher does, the current one is never refused. |
| `report` | 71,204 | Only `CrawlerError` exceptions, and the provider listed first fails in every way for ever: each provider gets a result, a non-failed one is true, the status in the database is that of the result, failures included unless writing it failed (`StatusAgreesWithReport`), a visit is over after a bounded number of steps (`VisitsAreFinite`), and the other provider is caught up in the end for good (`CatchUp`, under fairness). |
| `two_crawlers` | 373,049 | Two overlapping processes: the audit trail stays an unbroken, genuine prefix, rows come from their own provider's segments, reports do not overstate, a marker moves by one. Rows cease to match their marker only by a replay of a segment older than it (`OnlyOldReplaysDiverge`), and the stored index version goes backwards only when that of a replaced index is written (`OnlyReplacedIndexRewinds`). |
| `fetch` | 2,527 | One fetch from a server that answers anything, or of a file being rewritten: the bytes are those of one response, what is held of a body is capped, permanent failures end it and passing ones end it after `MaxRetries` requests. Every step leaves fewer to come, but for reads that bring no byte of the body and changes of the file (`OnlyIdleReadsAreUnbounded`); so the fetch ends, or ends up in one response that never comes to its next byte (`EndsUnlessHeld`). That it always ends does not hold: such a response is a behaviour of the model. |
| `publish` | 158,324 | Builds overwrite the directory and die while a crawl reads it: index and manifest carry one key, regenerating keeps it, the segments of one crawl are of one build, an undisturbed crawl succeeds, and in the end the crawl has everything. |
| `command` | 23,721 | One invocation over sound and faulty configurations, any call may raise, an interrupt may fall anywhere: nothing starts on a faulty file, exit code 0 means each enabled provider has a result and none failed, the store is closed. |
| `overlap`, `counted`, `rewind`, `escape`, `twice` | - | Violations, see the findings. |

Bounds of the last three passing runs. `fetch`: 3 attempts, so that there is one in
the middle; a cap of 4 bytes and chunks of up to 3, so that a chunk is gathered in one
read or in several and a body stays below the cap, meets it, or passes it from just
below or at one stroke; local files of up to 5 bytes. Nothing else in it is bounded. `publish`: two segments as in
`generate_mock_data.py`, 3 builds to their end and 2 deaths, so that a crawl can meet
the remains of three builds and a build can die on the key and on a file.
`command`: every list of up to 3 entries out of 7 kinds (sound, disabled, each
fault, one id with and without blanks), each of the 8 ways to write each number,
each form of the file. Deadlock is not checked in `fetch`, `publish` and `command`:
a fetch and an invocation end, and the publisher rests after its last build.

`report` checks `<>[]CaughtUp(p)` rather than a leads-to because the publications
are finite: after the last one the catalog has to reach it and stay.
`IndexVersionCoversMarker` and `CurrentIndexIsAcceptable` are for providers that
number an index at least as high as every segment it lists, which is what
`generate_mock_data.py` does; the `counted` run shows the other numbering.

## Findings

Each is a run that ends in a counterexample, with a statement of the repository it
contradicts. For each there is also a theorem that says how far the statement holds,
and thereby what the code would have to rule out.

1. **Overlapping crawls corrupt the catalog** (`overlap`, `SettledCatalogMatchesMarker`).
   The marker is read once (`crawler.py:122`) and `apply_segment` applies whatever
   version it is handed. Process 1 reads marker 0 and selects v1; process 2
   applies v1 and v2; process 1 applies v1 again. `MAX` keeps the marker at 2, but
   the rows are v1's over v2's: an item v2 removed is back, and no later crawl
   repairs it. No fault is needed. `README.md:357` calls the loser's work
   "idempotent anyway"; `storage.py:298` says the marker "can never be ahead of, or
   behind, the data". The `two_crawlers` run and its proofs say what does survive; by
   `CrawlerOnlyOldReplaysDiverge` and `CrawlerReplicatesRefusingOld` nothing else does
   any harm, so a guard in `apply_segment` would repair it: refuse a version below the
   marker.
2. **The rollback check compares an index number with a segment number**
   (`counted`, `CurrentIndexIsAcceptable`). `verify_index` compares
   `payload.version` with `last_applied_version`: a provider whose first index
   (version 1) lists segments 1 and 2 has that index refused as a rollback on the
   next crawl. `tests/test_verification.py:144`: "Re-serving the current index is
   normal, not an attack." Indexes numbered at least as high as their segments are
   safe from it (`CrawlerCurrentIndexIsAcceptable`).
3. **The stored index version can go backwards** (`rewind`,
   `IndexVersionNeverRewinds`). An index older than the last one seen, yet not
   older than the last segment, is accepted and overwrites `last_index_version`.
   `crawler.py:17`: "Check the index version has not gone backwards". It takes the
   index being replaced before its number is written
   (`CrawlerOnlyReplacedIndexRewinds`): no failure, crash or lost write does it.
4. **An exception outside `CrawlerError` stops the crawl of the providers after it**
   (`escape`, `EveryProviderAttempted`). An index version beyond 2^63 - 1 passes
   every check and makes `sqlite3` raise `OverflowError`, which nothing catches.
   `crawler.py:29`: "One bad provider must not stop the others". With the `CrawlerError`
   hierarchy alone it holds (`CrawlerEveryProviderAttempted`).

5. **One provider can be crawled twice in a run** (`twice`, `NoProviderTwice`).
   `_parse_providers` compares the id as written (`config.py:140`) and strips it
   afterwards, so `a` and ` a ` pass as two providers and become one: two manifest
   URLs feed one progress marker, and the second is asked for what follows the
   segments of the first. `tests/test_crawler.py:253`:
   `test_duplicate_provider_ids_are_rejected`. Blanks are the one way past the check
   (`CommandOnlyRespelledIdsRepeat`).

Smaller differences met while reading, each in the model as the code has it:

* `config.yaml:18-19` speaks of retrying 3 times, after 0.5s, 1s and 2s. The loop makes
  `max_retries` requests in all (`fetcher.py:77`) and pauses between them: two
  retries, after 0.5s and 1s (`RetriesFitTheFailure`).
* `fetcher.py:11-12` says of the timeouts that a server which "goes silent must not hang
  the crawler forever", and `fetcher.py:18-21` promises to abort an endless response.
  The first holds of silence only, the second of the body of the final response. A
  redirect without end to its body is read into memory inside `session.get`
  (`fetcher.py:79`), past the cap and never cut off; a chunked body whose size lines
  or trailers never end keeps `iter_content` reading (`IdleRead`, `EndsUnlessHeld`).
* `config.yaml:21`: "Refuse any single file larger than this". A local file is
  measured and then read (`fetcher.py:140-150`); one that grows in between is read
  whole (`DownloadIsCapped` says exactly that much).
* `README.md:115` calls segment files append-only; the publisher rewrites all of them,
  with new time stamps and digests, on each build (`generate_mock_data.py:145-152`).
  A crawl that holds the previous index then fails on a digest, and the next one
  succeeds.
* `main.py:10-13` gives exit code 2 to a faulty configuration and 1 to a failed
  provider. The code also returns 2 for a database that does not open and for a usage
  error, and 1 for an uncaught exception or an interrupt.
* Of the four calls of the constructor of the store two turn `sqlite3.Error` into
  `StorageError` (`storage.py:121-142`): if one of the others fails, the program ends
  with a traceback, and `main()` has no store to close (`OpenFails`; `StoreIsClosed`
  speaks of stores that were opened).
* A gap in an index leaves nothing to apply, and the provider is reported "up-to-date"
  with a warning in the log (`crawler.py:139`, `crawler.py:196`). `SuccessMeansCaughtUp` allows
  it: it says that the next version was not on offer, not that nothing newer was.
* `float()` reads NaN and infinity, and neither is `<= 0` (`config.py:62`): such a
  timeout passes validation and raises in the middle of a crawl. An infinite
  `max_retries`, or a number beyond every float, raises `OverflowError` out of
  `load_config`.

## Proofs

TLC checks the instances above; the theorems hold for every value of the constants
that satisfies the named assumptions: any number of connections, processes,
providers, items, segments, publications, faults.

| Theorem | States | Argument |
|---|---|---|
| `CatalogConsistent`, `CatalogMarkerNeverRewinds` (`CatalogProofs`) | the abstract store is well typed, its tables agree, its marker does not rewind | `Consistent` is inductive: an applied segment adds its version to the audit set and raises the marker to the larger of the two; a recorded result leaves both |
| `StoreTypeOK`, `StoreIsolation` (`CatalogStoreProofs`) | types; `Isolation` | `Inv`: types, `SingleWriter`, and for an open transaction `Progress`: `tx[c]` is the committed database with the first `done[c]` statements applied, in closed form |
| `StoreAtomicity` | `CatalogStore` implements `Catalog` | by `Inv`, at `Commit` the copy is the database with *all* statements of the call applied, which is the abstract operation; each other step stutters |
| `StoreConsistent`, `StoreMarkerNeverRewinds` | the store's tables agree; no commit rewinds a marker | carried over from `Catalog` along `StoreAtomicity` |
| `CrawlerTypeOK`, `CrawlerAuditIsPrefix`, `CrawlerMarkerMovesByOne` (`CrawlerProofs`) | types; the audit trail is exactly segments 1..marker of the provider's own files; a marker moves by at most one | see below |
| `CrawlerRowsAreGenuine` (`CrawlerDataProofs`) | with any number of processes, each row was written by an upsert of its own provider's file of the version it names | `MergedRow`: a merged row is the old one or one of the segment's; only `Apply` writes (`OnlyApplyWrites`) |
| `CrawlerMatchesMarker`, `CrawlerReplicates` | *with one process* (`Sole`), rows are the inventory at the marker; `Crawler` implements `Replica` | `Fresh`: what the process read of the marker is what it still is, so every pending version is above it; with `NoGap` the next one is marker + 1 exactly, and `Merge` takes one inventory to the next |
| `CrawlerOnlyOldReplaysDiverge` | with any number of processes, the rows of a provider cease to match its marker only by `ReplaysOld`, a process applying a segment older than the marker | `MatchStep`: what is applied is marker + 1, the marker or older (`NoGap`); the first extends the inventory, the second changes nothing (`MergeIdempotent`, `NewestReplays`) |
| `CrawlerReplicatesRefusingOld` | *if old segments are refused* (`RefusesOld`), any number of processes keep each provider's rows its inventory at the marker and implement `Replica` | `FollowStep`, the step of `CrawlerReplicates` without `Fresh` |
| `CrawlerUsesCatalog` (`CrawlerProofs`) | any number of crawlers over the three tables implement `Catalog` | each step of a crawler is one call `Catalog` allows, with arguments in range (`ApplyCalls`, `RecordCalls`), or leaves the tables alone |
| `SelectionIsPending` | on the ascending versions of any index the loop of `_select_pending_segments` returns exactly `Pending`, in ascending order, each once | loop invariant `Selected`: the list is last + 1, last + 2, ... and has every version the first n references reach; once the loop has stopped, nothing later is in reach. `LeastNatural` makes the induction |
| `CrawlerVisitsAreFinite` (`CrawlerDataProofs`) | a visit ends after at most 2 steps per file of its provider and 6 more | `StepsLeft` falls with every step of the process and with no other; a failure leaves one |
| `CrawlerOnlyReplacedIndexRewinds` | *for numbers that never fall* (`Rising`), with any number of processes, the stored index version goes backwards only when a process writes that of a replaced index | `Held`, `Stored`: every number a process or the store holds is one the provider has published, so none is above the current one |
| `CrawlerReportNeverOverstates` | with any number of processes, a segment a report counts is in its provider's audit trail | `ReportInv`: entry n of a report is of `Config[n]`, and what it, or the result under construction, counts lies in 1..marker, which only grows |
| `CrawlerEveryProviderAttempted` | *if nothing escapes* (`NothingEscapes`: `Unhandled` is empty and index numbers fit SQLite), a finished crawl has a result for each provider, in order | `Confined`: no process is aborted, the index version at hand fits |
| `CrawlerCurrentIndexIsAcceptable` | *for index numbers that cover their segments* (`Numbered`) *and never fall* (`Rising`), with any number of processes, the current index passes the rollback check | `Within`: some published index covers the marker, because a process applies only what a published index lists (`Offered`) |
| `CrawlerIndexVersionCoversMarker` | *one process, `Numbered`*: the stored index version is not below the marker | `Covered`, `Covers`: an applied version is one of the index at hand, whose number is stored with it |
| `CrawlerStatusAgreesWithReport` | *one process, no provider listed twice* (`NoRepeats`): a result is the status in the database, a failed one too if no fault has kept it from being written | `Agreed`: after a visit nothing writes that provider's status; `FaultsNeverFall` |
| `CrawlerSuccessMeansCaughtUp` | *one process, `NoRepeats`*: a result that is not failed means that the index read has nothing to offer next | `Truthful`: while segments are applied, `pending` is what `Pending` gives at the marker as it is now (`PendingAdvances`) |
| `StoreSingleWriter`, `StoreRowsAreAudited`, `StoreOneAuditPerVersion` (`CatalogStoreProofs`) | one open transaction at most; rows and audit trail agree, no version audited twice | the first is part of `Inv`, the others come from `Catalog` along `StoreAtomicity` |
| `FetcherTypeOK`, `FetcherBytesAreOneResponse`, `FetcherDownloadIsCapped`, `FetcherRetriesFitTheFailure` (`FetcherProofs`) | for any settings and any server | `Buffer`: while a body is read the buffer is what this response delivered, and fits; `Control`: one request per attempt, no permanent failure before the end |
| `FetcherOnlyIdleReadsAreUnbounded` | every step leaves fewer to come, but reads without a byte of the body and changes of the file | `StepsLeft` counts them: attempts left, and two steps per byte up to the cap and a chunk, one to read it and one to yield; `Buffer` bounds what an attempt can still deliver |
| `PublishingTypeOK`, `PublishingManifestIsLast`, `PublishingKeepsTheKey` (`PublishingProofs`) | key, index and manifest stay together, for any number of segments, builds and deaths | `Written`: what a build has written so far is its own; `Keys`: a new key differs from every key in the directory |
| `PublishingOneBuildPerCrawl`, `PublishingQuietCrawlSucceeds` | a crawl takes one build or fails; undisturbed it does not fail | `Crawling`: an index lists one build and a crawl takes what its index lists; `Consistent`, `Undisturbed`: a whole directory is one build, and a crawl left alone holds what it holds |
| `CommandTypeOK`, `CommandConfigIsSettledFirst`, `CommandExitTellsTheOutcome`, `CommandStoreIsClosed` (`CommandLineProofs`) | for a configuration of any length | `Checked`: what each phase has found out, `ParsedUpTo` entry by entry; `Crawled`: `VisitedUpTo` for the results; `Released` for the connection |
| `CommandOnlyRespelledIdsRepeat` | a crawl visits a provider twice only if the file spells its id in two ways (stated with its proof; no run checks it) | `Sourced`: each result is that of an entry already passed, and no two entries are written alike |

The hypotheses in italics are the ones the runs satisfy: one process in `crawl` and
`report`, an empty `Unhandled` with `SqlIntMax` 9 in `report`, no provider twice and
rising, covering index numbers (`MCPublications`) in both. `counted` and `escape` are
the runs that drop `Numbered` and `NothingEscapes`, `overlap` drops `Sole`, and
`twice` shows that the code does not ensure `NoRepeats`.

`CatalogTablesProofs` holds the lemmas on the table operators: the closed form of
upserts and removals follows the loops of `apply_segment` statement by statement
(`NextUpsert`, `NextRemoval`), a merged row is the old one or one of the
segment's (`MergedRow`), what the two marker statements keep. Where induction over
naturals would be used, `LeastNatural` takes its place.

**Why the audit trail needs an invariant of its own.** A process acts on a marker it
read long ago, so `AuditIsPrefix` is not inductive. What saves it is `NoGap`: below
a version a process still has to apply, each version is one it still has to apply
too, or is covered by the marker *as it is now*. It holds when the index is
accepted, because `_select_pending_segments` starts right after the marker that was
read and stops at the first gap, and markers have only grown since (`Behind`); it
survives the process's own steps, because segments are applied in order, and the steps
of the others, because markers only grow. With it the next version to apply is at
most marker + 1: either the one that extends the prefix, or one that is in it
already, with the same digest. `Control` says which variables hold what at each
`pc`. The lemmas `...Keeps` treat one action each, `UntouchedKeeps` the processes
that do not move.

**What one process adds.** Without `Sole` the proof of `CrawlerReplicates` stops at
`Fresh`, which other processes break, and finding 1 is the run that shows it. `NoGap`
is what is left of it, and it is enough to say how much is lost. By it a process
applies marker + 1, the marker itself, or something older. The first is the step of
`Replica`. The second is the case `README.md:357` has in mind, and there it is right:
to merge the newest segment again changes nothing (`MergeIdempotent`). The third is
`ReplaysOld`, the only step after which the rows of a provider may not match its
marker, and no other provider is affected (`CrawlerOnlyOldReplaysDiverge`). So
overlapping crawls need no lock between them: under `RefusesOld`, a guard in one
transaction that reads the marker anyway, `CatalogMatchesMarker` and
`Replication` hold for any number of processes (`CrawlerReplicatesRefusingOld`).

**How the parts compose.** `CrawlerUsesCatalog` and `StoreAtomicity` meet in `Catalog`:
the crawlers make only the calls it allows, and the store executes those calls as it
says, statement by statement. The enabled providers a crawl is given are by
`CommandConfigIsSettledFirst` those of a checked file. A `fetch` is one step of `Crawler`;
`FetcherOnlyIdleReadsAreUnbounded` leaves one way for it not to be, a host that never
comes to the point.

**Only model-checked.** Every invariant and action property of the passing runs is
proved. Liveness is not (`CatchUp` of `Crawler` and of `Publishing`,
`EndsUnlessHeld`): fairness is beyond the prover. What makes it true is a safety
property in two of the cases, and that is proved: a started visit has a bounded number
of steps before it (`VisitsAreFinite`), and so has a fetch while it is not held
(`OnlyIdleReadsAreUnbounded`), so that weak fairness of the steps is all that is needed for
them to end. That `Inventory` is well defined is a fact about recursion over data and
is left to TLC's evaluation of the assumption.

## Not modelled

* Cryptography, canonical JSON and field-by-field parsing (`canonical.py`, most of
  `models.py`): pure conversions, assumed sound (above).
* Time: how long a read, a pause between attempts or a lock is waited for. A timeout is
  an outcome of the step it ends.
* Wall-clock columns, row counts in the audit trail, messages and wording.
* Queries that change no state (`list_items`, `get_applied_segments`, `count_items`).
* Resolving paths and URLs: no decision of the models depends on the result.
* What becomes of a NaN or infinite timeout inside the socket call: it is a
  `VisitRaises` of `CommandLine`, no more.
* A database that refuses WAL mode, where a failing `COMMIT` leaves the
  transaction open.
* The tampering demo (`scripts/demo_tamper.py`), which edits files and prints; the
  tests, which were read for what they promise.

## Plan

Done: the store (abstract, detailed, refinement), the crawl (several processes,
refinement for one, and for any number under a guard), the fetch, the publisher with
a crawl in between, the command line with its configuration; all their safety
properties proved, and for each finding how far the statement it refutes holds. What
is left:

1. An abstract specification of what a publisher promises (`Publish` of `Crawler`),
   with `Publishing` shown to implement it between two builds.
2. A bound on what a crawl of `Publishing` needs to catch up, as `VisitsAreFinite`
   is for `Crawler`.
