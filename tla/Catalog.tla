------------------------------ MODULE Catalog ------------------------------
(***************************************************************************)
(* What crawler/storage.py promises its callers: three tables that change  *)
(* only by two operations, each of them one indivisible step.  The module  *)
(* is the abstract specification CatalogStore implements statement by      *)
(* statement, and the store the Crawler module calls.                      *)
(***************************************************************************)
EXTENDS CatalogTables

CONSTANTS
    Segments,       \* the segments callers may apply
    IndexVersions   \* the index versions callers may report

VARIABLES catalog_items, provider_state, applied_segments

tables == <<catalog_items, provider_state, applied_segments>>

TypeOK ==
    /\ catalog_items \in [Providers -> [Items -> Row \union {None}]]
    /\ provider_state \in [Providers -> ProviderState \union {None}]
    /\ applied_segments \in [Providers -> SUBSET AuditRow]

(* A freshly created schema. *)
Init ==
    /\ catalog_items = [p \in Providers |-> NoRows]
    /\ provider_state = [p \in Providers |-> None]
    /\ applied_segments = [p \in Providers |-> {}]

(* get_provider_state(p).last_applied_version. *)
LastApplied(p) == Applied(provider_state[p])

(* Mutant: PRIMARY KEY (item_id), so one provider's segment hits all rows. *)
ApplySegmentByItem(p, segment, digest, index_version) ==
    /\ catalog_items' = [q \in Providers |-> Merge(catalog_items[q], segment)]
    /\ applied_segments' =
           [applied_segments EXCEPT ![p] = UpsertAudit(@, segment.version, digest)]
    /\ provider_state' =
           [provider_state EXCEPT ![p] = AdvanceMarker(@, segment.version, index_version)]

(* apply_segment: rows, audit row and marker change together. *)
ApplySegment(p, segment, digest, index_version) ==
    /\ catalog_items' = [catalog_items EXCEPT ![p] = Merge(@, segment)]
    /\ applied_segments' =
           [applied_segments EXCEPT ![p] = UpsertAudit(@, segment.version, digest)]
    /\ provider_state' =
           [provider_state EXCEPT ![p] = AdvanceMarker(@, segment.version, index_version)]

(* record_crawl_result: only the progress row changes. *)
RecordCrawlResult(p, status, index_version) ==
    /\ provider_state' = [provider_state EXCEPT ![p] = NoteResult(@, status, index_version)]
    /\ UNCHANGED <<catalog_items, applied_segments>>

Next == \E p \in Providers :
    \/ \E segment \in Segments, digest \in Digests, iv \in IndexVersions :
           ApplySegment(p, segment, digest, iv)
    \/ \E status \in Statuses, iv \in IndexVersions \union {None} :
           RecordCrawlResult(p, status, iv)

Spec == Init /\ [][Next]_tables

---------------------------------------------------------------------------
(* The progress marker is the newest version in the audit trail, and 0 for *)
(* a provider nothing was applied for: provider_state and applied_segments *)
(* are written by different statements and never disagree.                 *)
MarkerIsNewestAudit ==
    \A p \in Providers :
        /\ \A v \in AuditedVersions(applied_segments[p]) : v <= LastApplied(p)
        /\ LastApplied(p) > 0 => LastApplied(p) \in AuditedVersions(applied_segments[p])

(* Every stored row names a segment version the audit trail vouches for.   *)
RowsAreAudited ==
    \A p \in Providers, i \in Items :
        catalog_items[p][i] # None =>
            catalog_items[p][i].source_version \in AuditedVersions(applied_segments[p])

(* PRIMARY KEY (provider_id, segment_version): replays of a segment update *)
(* the audit row of its version, they never add a second one.              *)
OneAuditPerVersion ==
    \A p \in Providers : \A r, s \in applied_segments[p] :
        r.segment_version = s.segment_version => r = s

(* last_applied_version never moves backwards, whatever order segments are *)
(* applied in and whatever crawl results are recorded in between.          *)
MarkerNeverRewinds ==
    [][\A p \in Providers : LastApplied(p)' >= LastApplied(p)]_tables
=============================================================================
