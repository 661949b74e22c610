--------------------------- MODULE CatalogProofs ---------------------------
(***************************************************************************)
(* What Catalog promises holds for every value of its constants: type      *)
(* correctness, and the relations between the three tables.                *)
(***************************************************************************)
EXTENDS Catalog, CatalogTablesProofs

(* The relations between the tables that every step keeps. *)
Consistent == TypeOK /\ MarkerIsNewestAudit /\ RowsAreAudited /\ OneAuditPerVersion

LEMMA InitConsistent == Init => Consistent
  <1> SUFFICES ASSUME Init PROVE Consistent OBVIOUS
  <1>1. \A p \in Providers : LastApplied(p) = 0 /\ AuditedVersions(applied_segments[p]) = {}
    BY DEF Init, LastApplied, Applied, AuditedVersions
  <1>2. TypeOK BY DEF Init, TypeOK, NoRows
  <1>3. MarkerIsNewestAudit
    <2> SUFFICES ASSUME NEW p \in Providers
                 PROVE  /\ \A v \in AuditedVersions(applied_segments[p]) : v <= LastApplied(p)
                        /\ LastApplied(p) > 0 =>
                              LastApplied(p) \in AuditedVersions(applied_segments[p])
      BY DEF MarkerIsNewestAudit
    <2>1. LastApplied(p) = 0 /\ AuditedVersions(applied_segments[p]) = {} BY <1>1
    <2> QED BY <2>1
  <1>4. RowsAreAudited BY DEF Init, RowsAreAudited, NoRows
  <1>5. OneAuditPerVersion BY DEF Init, OneAuditPerVersion
  <1> QED BY <1>2, <1>3, <1>4, <1>5 DEF Consistent

LEMMA TypedTables ==
    ASSUME TypeOK, NEW p \in Providers
    PROVE  /\ catalog_items[p] \in Rows
           /\ provider_state[p] \in States
           /\ applied_segments[p] \in SUBSET AuditRow
           /\ LastApplied(p) \in Nat
  BY AppliedType DEF TypeOK, Rows, States, LastApplied

(* What applying a segment does to its provider, and not to the others.    *)
LEMMA ApplySegmentFacts ==
    ASSUME TypeOK, NEW p \in Providers, NEW segment \in Segment,
           NEW digest \in Digests, NEW iv \in Versions,
           ApplySegment(p, segment, digest, iv)
    PROVE  /\ TypeOK'
           /\ catalog_items'[p] = Merge(catalog_items[p], segment)
           /\ applied_segments'[p]
                = UpsertAudit(applied_segments[p], segment.version, digest)
           /\ provider_state'[p] # None
           /\ provider_state'[p].last_index_version = iv
           /\ LastApplied(p)'
                = IF segment.version > LastApplied(p) THEN segment.version ELSE LastApplied(p)
           /\ \A q \in Providers \ {p} :
                 /\ catalog_items'[q] = catalog_items[q]
                 /\ applied_segments'[q] = applied_segments[q]
                 /\ provider_state'[q] = provider_state[q]
                 /\ LastApplied(q)' = LastApplied(q)
  <1> segment.version \in Versions BY SegmentFields
  <1>1. /\ catalog_items' = [catalog_items EXCEPT ![p] = Merge(@, segment)]
        /\ applied_segments' =
               [applied_segments EXCEPT ![p] = UpsertAudit(@, segment.version, digest)]
        /\ provider_state' =
               [provider_state EXCEPT ![p] = AdvanceMarker(@, segment.version, iv)]
    BY DEF ApplySegment
  <1>2. /\ Merge(catalog_items[p], segment) \in Rows
        /\ UpsertAudit(applied_segments[p], segment.version, digest) \in SUBSET AuditRow
        /\ AdvanceMarker(provider_state[p], segment.version, iv) \in ProviderState
    BY TypedTables, MergeType, UpsertAuditFacts, AdvanceMarkerFacts
  <1>3. TypeOK' BY <1>1, <1>2 DEF TypeOK, Rows
  <1>4. /\ catalog_items'[p] = Merge(catalog_items[p], segment)
        /\ applied_segments'[p] = UpsertAudit(applied_segments[p], segment.version, digest)
        /\ provider_state'[p] = AdvanceMarker(provider_state[p], segment.version, iv)
    BY <1>1 DEF TypeOK
  <1>5. \A q \in Providers \ {p} :
           /\ catalog_items'[q] = catalog_items[q]
           /\ applied_segments'[q] = applied_segments[q]
           /\ provider_state'[q] = provider_state[q]
    BY <1>1 DEF TypeOK
  <1>6. /\ provider_state'[p] # None
        /\ provider_state'[p].last_index_version = iv
        /\ Applied(provider_state'[p]) = IF segment.version > Applied(provider_state[p])
                                         THEN segment.version ELSE Applied(provider_state[p])
    BY <1>4, TypedTables, AdvanceMarkerFacts
  <1> QED BY <1>3, <1>4, <1>5, <1>6 DEF LastApplied

(* Recording a result touches nothing but one progress row.                *)
LEMMA RecordCrawlResultFacts ==
    ASSUME TypeOK, NEW p \in Providers, NEW status \in Statuses,
           NEW iv \in Versions \union {None},
           RecordCrawlResult(p, status, iv)
    PROVE  /\ TypeOK'
           /\ UNCHANGED <<catalog_items, applied_segments>>
           /\ provider_state'[p] # None
           /\ provider_state'[p].last_index_version
                = IF iv = None THEN IndexSeen(provider_state[p]) ELSE iv
           /\ \A q \in Providers \ {p} : provider_state'[q] = provider_state[q]
           /\ \A q \in Providers : LastApplied(q)' = LastApplied(q)
  <1>1. /\ UNCHANGED <<catalog_items, applied_segments>>
        /\ provider_state' = [provider_state EXCEPT ![p] = NoteResult(@, status, iv)]
    BY DEF RecordCrawlResult
  <1>2. /\ NoteResult(provider_state[p], status, iv) \in ProviderState
        /\ NoteResult(provider_state[p], status, iv) # None
        /\ Applied(NoteResult(provider_state[p], status, iv)) = Applied(provider_state[p])
        /\ NoteResult(provider_state[p], status, iv).last_index_version
              = IF iv = None THEN IndexSeen(provider_state[p]) ELSE iv
    BY TypedTables, NoteResultFacts
  <1>3. /\ provider_state'[p] = NoteResult(provider_state[p], status, iv)
        /\ \A q \in Providers \ {p} : provider_state'[q] = provider_state[q]
    BY <1>1 DEF TypeOK
  <1>4. TypeOK' BY <1>1, <1>2 DEF TypeOK
  <1> QED BY <1>1, <1>2, <1>3, <1>4 DEF LastApplied

(* Applying a segment keeps the tables consistent.                         *)
LEMMA ApplySegmentKeeps ==
    ASSUME Consistent, NEW p \in Providers, NEW segment \in Segment,
           NEW digest \in Digests, NEW iv \in Versions,
           ApplySegment(p, segment, digest, iv)
    PROVE  Consistent'
  <1> DEFINE v == segment.version
  <1> USE DEF Consistent
  <1>1. v \in Versions BY SegmentFields
  <1>2. /\ TypeOK'
        /\ catalog_items'[p] = Merge(catalog_items[p], segment)
        /\ applied_segments'[p] = UpsertAudit(applied_segments[p], v, digest)
        /\ LastApplied(p)' = IF v > LastApplied(p) THEN v ELSE LastApplied(p)
        /\ \A q \in Providers \ {p} :
              /\ catalog_items'[q] = catalog_items[q]
              /\ applied_segments'[q] = applied_segments[q]
              /\ LastApplied(q)' = LastApplied(q)
    BY ApplySegmentFacts
  <1>3. AuditedVersions(applied_segments'[p]) = AuditedVersions(applied_segments[p]) \union {v}
    BY <1>1, <1>2, TypedTables, UpsertAuditFacts
  <1>4. \A q \in Providers :
           AuditedVersions(applied_segments[q]) \subseteq Versions /\ LastApplied(q) \in Nat
    BY TypedTables DEF AuditedVersions, AuditRow
  <1> HIDE DEF v
  <1>5. MarkerIsNewestAudit'
    <2> SUFFICES ASSUME NEW q \in Providers
                 PROVE  /\ \A w \in AuditedVersions(applied_segments'[q]) : w <= LastApplied(q)'
                        /\ LastApplied(q)' > 0 =>
                              LastApplied(q)' \in AuditedVersions(applied_segments'[q])
      BY DEF MarkerIsNewestAudit
    <2>1. /\ \A w \in AuditedVersions(applied_segments[q]) : w <= LastApplied(q)
          /\ LastApplied(q) > 0 => LastApplied(q) \in AuditedVersions(applied_segments[q])
      BY DEF MarkerIsNewestAudit
    <2>2. CASE q # p BY <1>2, <2>1, <2>2
    <2>3. CASE q = p
      <3>1. LastApplied(p)' = v \/ LastApplied(p)' = LastApplied(p) BY <1>2
      <3>2. v <= LastApplied(p)' /\ LastApplied(p) <= LastApplied(p)'
        BY <1>1, <1>2, <1>4 DEF Versions
      <3>3. \A w \in AuditedVersions(applied_segments[p]) : w \in Nat BY <1>4 DEF Versions
      <3>4. LastApplied(p)' \in Nat BY <1>1, <1>4, <3>1 DEF Versions
      <3>5. ASSUME NEW w \in AuditedVersions(applied_segments'[p])
            PROVE  w <= LastApplied(p)'
        <4>1. CASE w = v BY <3>2, <4>1
        <4>2. CASE w \in AuditedVersions(applied_segments[p])
          BY <1>4, <2>1, <2>3, <3>2, <3>3, <3>4, <4>2
        <4> QED BY <1>3, <4>1, <4>2
      <3>6. LastApplied(p)' > 0 => LastApplied(p)' \in AuditedVersions(applied_segments'[p])
        BY <1>3, <2>1, <2>3, <3>1
      <3> QED BY <2>3, <3>5, <3>6
    <2> QED BY <2>2, <2>3
  <1>6. RowsAreAudited'
    <2> SUFFICES ASSUME NEW q \in Providers, NEW i \in Items, catalog_items'[q][i] # None
                 PROVE  catalog_items'[q][i].source_version
                           \in AuditedVersions(applied_segments'[q])
      BY DEF RowsAreAudited
    <2>1. catalog_items[q][i] # None =>
             catalog_items[q][i].source_version \in AuditedVersions(applied_segments[q])
      BY DEF RowsAreAudited
    <2>2. CASE q # p BY <1>2, <2>1, <2>2
    <2>3. CASE q = p
      <3>1. catalog_items[p] \in Rows BY TypedTables
      <3>2. \/ catalog_items'[p][i] = catalog_items[p][i]
            \/ catalog_items'[p][i].source_version = v
        <4>1. Merge(catalog_items[p], segment)[i] # None BY <1>2, <2>3
        <4>2. \/ Merge(catalog_items[p], segment)[i] = catalog_items[p][i]
              \/ \E k \in 1..Len(segment.upserts) :
                    Merge(catalog_items[p], segment)[i]
                       = [payload |-> segment.upserts[k].payload, source_version |-> v]
          BY <3>1, <4>1, MergedRow DEF v
        <4>3. Merge(catalog_items[p], segment)[i] = catalog_items'[p][i] BY <1>2
        <4>4. ASSUME NEW x, catalog_items'[p][i] = [payload |-> x, source_version |-> v]
              PROVE  catalog_items'[p][i].source_version = v
          BY <4>4
        <4> QED BY <4>2, <4>3, <4>4
      <3> QED BY <1>3, <2>1, <2>3, <3>2
    <2> QED BY <2>2, <2>3
  <1>7. OneAuditPerVersion'
    <2> SUFFICES ASSUME NEW q \in Providers,
                        NEW r \in applied_segments'[q], NEW s \in applied_segments'[q],
                        r.segment_version = s.segment_version
                 PROVE  r = s
      BY DEF OneAuditPerVersion
    <2>1. \A x, y \in applied_segments[q] : x.segment_version = y.segment_version => x = y
      BY DEF OneAuditPerVersion
    <2> QED BY <1>2, <2>1 DEF UpsertAudit
  <1> QED BY <1>2, <1>5, <1>6, <1>7

(* Recording a result keeps the tables consistent.                         *)
LEMMA RecordCrawlResultKeeps ==
    ASSUME Consistent, NEW p \in Providers, NEW status \in Statuses,
           NEW iv \in Versions \union {None},
           RecordCrawlResult(p, status, iv)
    PROVE  Consistent'
  <1> USE DEF Consistent
  <1>1. /\ TypeOK'
        /\ UNCHANGED <<catalog_items, applied_segments>>
        /\ \A q \in Providers : LastApplied(q)' = LastApplied(q)
    BY RecordCrawlResultFacts
  <1>2. MarkerIsNewestAudit' BY <1>1 DEF MarkerIsNewestAudit
  <1>3. RowsAreAudited' BY <1>1 DEF RowsAreAudited
  <1>4. OneAuditPerVersion' BY <1>1 DEF OneAuditPerVersion
  <1> QED BY <1>1, <1>2, <1>3, <1>4

LEMMA StepConsistent ==
    ASSUME Segments \subseteq Segment, IndexVersions \subseteq Versions,
           Consistent, [Next]_tables
    PROVE  Consistent' /\ \A p \in Providers : LastApplied(p)' >= LastApplied(p)
  <1>1. \A q \in Providers : LastApplied(q) \in Nat BY TypedTables DEF Consistent
  <1>2. ASSUME NEW p \in Providers, NEW segment \in Segments, NEW digest \in Digests,
               NEW iv \in IndexVersions, ApplySegment(p, segment, digest, iv)
        PROVE  Consistent' /\ \A q \in Providers : LastApplied(q)' >= LastApplied(q)
    <2>1. segment \in Segment /\ iv \in Versions /\ segment.version \in Nat
      BY SegmentFields DEF Versions
    <2>2. Consistent' BY <1>2, <2>1, ApplySegmentKeeps
    <2>3. /\ LastApplied(p)' = IF segment.version > LastApplied(p)
                               THEN segment.version ELSE LastApplied(p)
          /\ \A q \in Providers \ {p} : LastApplied(q)' = LastApplied(q)
      BY <1>2, <2>1, ApplySegmentFacts DEF Consistent
    <2>4. LastApplied(p)' >= LastApplied(p) BY <1>1, <2>1, <2>3
    <2>5. \A q \in Providers \ {p} : LastApplied(q)' >= LastApplied(q) BY <1>1, <2>3
    <2> QED BY <2>2, <2>4, <2>5
  <1>3. ASSUME NEW p \in Providers, NEW status \in Statuses,
               NEW iv \in IndexVersions \union {None}, RecordCrawlResult(p, status, iv)
        PROVE  Consistent' /\ \A q \in Providers : LastApplied(q)' >= LastApplied(q)
    <2>1. iv \in Versions \union {None} OBVIOUS
    <2>2. Consistent' BY <1>3, <2>1, RecordCrawlResultKeeps
    <2>3. \A q \in Providers : LastApplied(q)' = LastApplied(q)
      BY <1>3, <2>1, RecordCrawlResultFacts DEF Consistent
    <2> QED BY <1>1, <2>2, <2>3
  <1>4. ASSUME UNCHANGED tables
        PROVE  Consistent' /\ \A q \in Providers : LastApplied(q)' >= LastApplied(q)
    BY <1>1, <1>4 DEF tables, Consistent, TypeOK, MarkerIsNewestAudit, RowsAreAudited,
                      OneAuditPerVersion, LastApplied
  <1> QED BY <1>2, <1>3, <1>4 DEF Next

---------------------------------------------------------------------------
(* The tables always have their declared shape, and in every reachable     *)
(* database the marker is the newest audited version, every row is         *)
(* vouched for by an audit row, and no version is audited twice.           *)
THEOREM CatalogConsistent ==
    ASSUME Segments \subseteq Segment, IndexVersions \subseteq Versions
    PROVE  Spec => [](TypeOK /\ MarkerIsNewestAudit /\ RowsAreAudited /\ OneAuditPerVersion)
  <1>1. Init => Consistent BY InitConsistent
  <1>2. Consistent /\ [Next]_tables => Consistent' BY StepConsistent
  <1>3. Consistent =>
           TypeOK /\ MarkerIsNewestAudit /\ RowsAreAudited /\ OneAuditPerVersion
    BY DEF Consistent
  <1> QED BY <1>1, <1>2, <1>3, PTL DEF Spec

(* No sequence of store operations moves a progress marker backwards.      *)
THEOREM CatalogMarkerNeverRewinds ==
    ASSUME Segments \subseteq Segment, IndexVersions \subseteq Versions
    PROVE  Spec => MarkerNeverRewinds
  <1>1. Init => Consistent BY InitConsistent
  <1>2. Consistent /\ [Next]_tables => Consistent' BY StepConsistent
  <1>3. Consistent /\ [Next]_tables =>
           [\A p \in Providers : LastApplied(p)' >= LastApplied(p)]_tables
    BY StepConsistent
  <1> QED BY <1>1, <1>2, <1>3, PTL DEF Spec, MarkerNeverRewinds
=============================================================================
