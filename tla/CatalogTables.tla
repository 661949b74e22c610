--------------------------- MODULE CatalogTables ---------------------------
(***************************************************************************)
(* The three tables of crawler/storage.py as values, and what each SQL     *)
(* statement of apply_segment and record_crawl_result does to them.  A     *)
(* table is a function of the provider id: every statement of the store    *)
(* names the provider in its key or its WHERE clause.                      *)
(*                                                                         *)
(*   catalog_items[p]     the provider's rows, item id -> row or None      *)
(*   provider_state[p]    the provider's progress row, or None             *)
(*   applied_segments[p]  the provider's audit rows, one per version       *)
(*                                                                         *)
(* Wall-clock columns and the row counts of the audit trail are left out.  *)
(***************************************************************************)
EXTENDS Integers, Sequences

CONSTANTS
    Providers,  \* provider ids
    Items,      \* item ids, unique only within a provider
    Payloads,   \* item documents
    Digests,    \* SHA-256 digests; distinct files have distinct digests
    None        \* an absent row, SQL NULL, Python None

Versions == Nat \ {0}
Statuses == {"ok", "up-to-date", "failed"}

(* models.Segment: upserts and removals are lists, executed in order. *)
Segment == [provider_id : Providers, version : Versions,
            upserts : Seq([id : Items, payload : Payloads]),
            removals : Seq(Items)]

Row == [payload : Payloads, source_version : Versions]
ProviderState == [last_applied_version : Nat,
                  last_index_version : Versions \union {None},
                  last_status : Statuses]
AuditRow == [segment_version : Versions, digest : Digests]

(* None is a value of its own, so a lookup can tell it from a row. *)
ASSUME NoneAssumption ==
    /\ None \notin Row
    /\ None \notin ProviderState
    /\ None \notin Segment
    /\ None \notin Nat
    /\ None \notin Digests

NoRows == [i \in Items |-> None]

---------------------------------------------------------------------------
(* catalog_items *)

(* INSERT ... ON CONFLICT(provider_id, item_id) DO UPDATE. *)
UpsertRow(rows, item, version) ==
    [rows EXCEPT ![item.id] = [payload |-> item.payload, source_version |-> version]]

(* DELETE ... WHERE provider_id = ? AND item_id = ?; deleting nothing is fine. *)
DeleteRow(rows, item_id) == [rows EXCEPT ![item_id] = None]

(* The upsert statements that name item i, among the first n. *)
Touching(upserts, i, n) == {k \in 1..n : upserts[k].id = i}

(* ... and the last of them, which decides the item's row. *)
Deciding(upserts, i, n) ==
    CHOOSE k \in Touching(upserts, i, n) : \A m \in Touching(upserts, i, n) : m <= k

(* The rows after the first n upserts of a segment ... *)
AfterUpserts(rows, segment, n) ==
    [i \in Items |->
        IF Touching(segment.upserts, i, n) = {} THEN rows[i]
        ELSE [payload |-> segment.upserts[Deciding(segment.upserts, i, n)].payload,
              source_version |-> segment.version]]

(* ... and after the first n removals that follow them. *)
AfterRemovals(rows, segment, n) ==
    [i \in Items |-> IF \E k \in 1..n : segment.removals[k] = i THEN None ELSE rows[i]]

(* What a whole segment does to its provider's rows. *)
Merge(rows, segment) ==
    AfterRemovals(AfterUpserts(rows, segment, Len(segment.upserts)),
                  segment, Len(segment.removals))

---------------------------------------------------------------------------
(* applied_segments and provider_state *)

(* Mutants: PRIMARY KEY (provider_id), and a plain INSERT with no key. *)
UpsertAuditPerProvider(rows, version, digest) ==
    {[segment_version |-> version, digest |-> digest]}
UpsertAuditAppending(rows, version, digest) ==
    rows \union {[segment_version |-> version, digest |-> digest]}

(* The audit row is keyed by (provider_id, segment_version). *)
UpsertAudit(rows, version, digest) ==
    {r \in rows : r.segment_version # version}
        \union {[segment_version |-> version, digest |-> digest]}

AuditedVersions(rows) == {r.segment_version : r \in rows}

(* get_provider_state: a missing row reads as version 0 of nothing. *)
Applied(state) == IF state = None THEN 0 ELSE state.last_applied_version
IndexSeen(state) == IF state = None THEN None ELSE state.last_index_version

(* Mutant: last_applied_version = excluded.last_applied_version, no MAX. *)
AdvanceMarkerNoMax(state, version, index_version) ==
    [last_applied_version |-> version,
     last_index_version |-> index_version,
     last_status |-> "ok"]

(* The marker statement of apply_segment, with its SQL MAX. *)
AdvanceMarker(state, version, index_version) ==
    [last_applied_version |-> IF version > Applied(state) THEN version ELSE Applied(state),
     last_index_version |-> index_version,
     last_status |-> "ok"]

(* Mutants: INSERT OR REPLACE, COALESCE(..., 0), and a failure that leaves *)
(* the status of a known provider as it was.                               *)
NoteResultReplacing(state, status, index_version) ==
    [last_applied_version |-> 0,
     last_index_version |-> index_version,
     last_status |-> status]
NoteResultWithZero(state, status, index_version) ==
    [last_applied_version |-> Applied(state),
     last_index_version |-> IF index_version = None THEN 0 ELSE index_version,
     last_status |-> status]
NoteResultUnlessFailed(state, status, index_version) ==
    [last_applied_version |-> Applied(state),
     last_index_version |-> IF index_version = None THEN IndexSeen(state) ELSE index_version,
     last_status |-> IF status = "failed" /\ state # None THEN state.last_status ELSE status]

(* record_crawl_result, with its COALESCE: a NULL version keeps the old one. *)
NoteResult(state, status, index_version) ==
    [last_applied_version |-> Applied(state),
     last_index_version |-> IF index_version = None THEN IndexSeen(state) ELSE index_version,
     last_status |-> status]
=============================================================================
