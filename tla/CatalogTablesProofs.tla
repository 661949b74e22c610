------------------------ MODULE CatalogTablesProofs ------------------------
(***************************************************************************)
(* Facts about the table operators that the proofs of Catalog,             *)
(* CatalogStore and Crawler rest on.                                       *)
(***************************************************************************)
EXTENDS CatalogTables, FiniteSetTheorems, SequenceTheorems, TLAPS

Rows == [Items -> Row \union {None}]

(* Sets of naturals have a least element; this stands in for induction.    *)
LEMMA LeastNatural ==
    ASSUME NEW S \in SUBSET Nat, S # {}
    PROVE  \E m \in S : \A n \in S : m <= n
  <1> DEFINE Initial == {0..n : n \in S}
  <1>1. Initial \subseteq FiniteSubsetsOf(Nat)
    <2>1. \A n \in S : IsFiniteSet(0..n) BY FS_Interval
    <2> QED BY <2>1 DEF FiniteSubsetsOf
  <1>2. Initial # {} OBVIOUS
  <1>3. PICK X \in Initial : \A Y \in Initial : <<Y, X>> \notin StrictSubsetOrdering(Nat)
    <2> HIDE DEF Initial
    <2>1. IsWellFoundedOn(StrictSubsetOrdering(Nat), FiniteSubsetsOf(Nat))
      BY FS_StrictSubsetOrderingWellFounded
    <2> QED BY ONLY <1>1, <1>2, <2>1, WFMin
  <1>4. PICK m \in S : X = 0..m BY <1>3
  <1>5. ASSUME NEW n \in S, ~(m <= n) PROVE FALSE
    <2>1. 0..n \in Initial /\ 0..n \subseteq 0..m /\ 0..n # 0..m
      <3>1. m \in 0..m /\ m \notin 0..n BY <1>5
      <3> QED BY <1>5, <3>1
    <2>2. <<0..n, 0..m>> \in StrictSubsetOrdering(Nat)
      BY <2>1 DEF StrictSubsetOrdering
    <2> QED BY <1>3, <1>4, <2>1, <2>2
  <1> QED BY <1>5

(* Bounded sets of positive naturals have a greatest one.                  *)
LEMMA GreatestUpTo ==
    ASSUME NEW n \in Nat, NEW S \in SUBSET (1..n), S # {}
    PROVE  \E k \in S : \A m \in S : m <= k
  <1> DEFINE D == {n - k : k \in S}
  <1>1. D \in SUBSET Nat
    <2>1. \A k \in S : n - k \in Nat OBVIOUS
    <2> QED BY <2>1
  <1>2. D # {} OBVIOUS
  <1>3. PICK d \in D : \A e \in D : d <= e
    <2> HIDE DEF D
    <2> QED BY <1>1, <1>2, LeastNatural
  <1>4. PICK k \in S : d = n - k BY <1>3
  <1>5. \A m \in S : n - m \in D OBVIOUS
  <1>6. ASSUME NEW m \in S PROVE m <= k
    <2> HIDE DEF D
    <2>1. n - k <= n - m BY <1>3, <1>4, <1>5
    <2> QED BY <2>1
  <1> QED BY <1>6

---------------------------------------------------------------------------
(* catalog_items *)

LEMMA SegmentFields ==
    ASSUME NEW segment \in Segment
    PROVE  /\ segment.version \in Versions
           /\ Len(segment.upserts) \in Nat
           /\ Len(segment.removals) \in Nat
           /\ \A k \in 1..Len(segment.upserts) :
                 /\ segment.upserts[k].id \in Items
                 /\ segment.upserts[k].payload \in Payloads
           /\ \A k \in 1..Len(segment.removals) : segment.removals[k] \in Items
  <1>1. /\ segment.version \in Versions
        /\ segment.upserts \in Seq([id : Items, payload : Payloads])
        /\ segment.removals \in Seq(Items)
    BY DEF Segment
  <1>2. Len(segment.upserts) \in Nat /\ Len(segment.removals) \in Nat
    BY <1>1, LenProperties
  <1>3. \A k \in 1..Len(segment.upserts) :
           segment.upserts[k] \in [id : Items, payload : Payloads]
    BY <1>1, ElementOfSeq
  <1>4. \A k \in 1..Len(segment.removals) : segment.removals[k] \in Items
    BY <1>1, ElementOfSeq
  <1> QED BY <1>1, <1>2, <1>3, <1>4

(* The statement that decides item i's row is the last that names it.      *)
LEMMA DecidingTouches ==
    ASSUME NEW upserts, NEW i, NEW n \in Nat, Touching(upserts, i, n) # {}
    PROVE  /\ Deciding(upserts, i, n) \in 1..n
           /\ upserts[Deciding(upserts, i, n)].id = i
           /\ \A m \in Touching(upserts, i, n) : m <= Deciding(upserts, i, n)
  <1> DEFINE T == Touching(upserts, i, n)
  <1>1. T \in SUBSET (1..n) /\ T # {} BY DEF Touching
  <1>2. \E k \in T : \A m \in T : m <= k
    <2> HIDE DEF T
    <2> QED BY <1>1, GreatestUpTo
  <1>3. Deciding(upserts, i, n) \in T /\ \A m \in T : m <= Deciding(upserts, i, n)
    BY <1>2 DEF Deciding
  <1> QED BY <1>3 DEF Touching

(* A row after n upserts is the old one or one of theirs. *)
LEMMA UpsertedRow ==
    ASSUME NEW rows \in Rows, NEW segment \in Segment,
           NEW n \in 0..Len(segment.upserts), NEW i \in Items
    PROVE  \/ AfterUpserts(rows, segment, n)[i] = rows[i]
           \/ \E k \in 1..n :
                 /\ segment.upserts[k].id = i
                 /\ AfterUpserts(rows, segment, n)[i]
                       = [payload |-> segment.upserts[k].payload,
                          source_version |-> segment.version]
  <1> DEFINE k == Deciding(segment.upserts, i, n)
  <1>1. CASE Touching(segment.upserts, i, n) = {} BY <1>1 DEF AfterUpserts
  <1>2. CASE Touching(segment.upserts, i, n) # {}
    <2>1. n \in Nat BY SegmentFields
    <2>2. k \in 1..n /\ segment.upserts[k].id = i BY <1>2, <2>1, DecidingTouches
    <2>3. AfterUpserts(rows, segment, n)[i]
             = [payload |-> segment.upserts[k].payload,
                source_version |-> segment.version]
      BY <1>2 DEF AfterUpserts
    <2> QED BY <2>2, <2>3
  <1> QED BY <1>1, <1>2

LEMMA AfterUpsertsType ==
    ASSUME NEW rows \in Rows, NEW segment \in Segment,
           NEW n \in 0..Len(segment.upserts)
    PROVE  AfterUpserts(rows, segment, n) \in Rows
  <1>1. ASSUME NEW i \in Items
        PROVE  AfterUpserts(rows, segment, n)[i] \in Row \union {None}
    <2>1. CASE AfterUpserts(rows, segment, n)[i] = rows[i] BY <2>1 DEF Rows
    <2>2. ASSUME NEW k \in 1..n, segment.upserts[k].id = i,
                 AfterUpserts(rows, segment, n)[i]
                    = [payload |-> segment.upserts[k].payload,
                       source_version |-> segment.version]
          PROVE  AfterUpserts(rows, segment, n)[i] \in Row
      <3>1. k \in 1..Len(segment.upserts) BY SegmentFields
      <3> QED BY <2>2, <3>1, SegmentFields DEF Row
    <2>3. \/ AfterUpserts(rows, segment, n)[i] = rows[i]
          \/ \E k \in 1..n :
                /\ segment.upserts[k].id = i
                /\ AfterUpserts(rows, segment, n)[i]
                      = [payload |-> segment.upserts[k].payload,
                         source_version |-> segment.version]
      BY UpsertedRow
    <2> QED BY <2>1, <2>2, <2>3
  <1>2. AfterUpserts(rows, segment, n) = [i \in Items |-> AfterUpserts(rows, segment, n)[i]]
    BY DEF AfterUpserts
  <1> QED BY <1>1, <1>2 DEF Rows

LEMMA AfterRemovalsType ==
    ASSUME NEW rows \in Rows, NEW segment, NEW n
    PROVE  AfterRemovals(rows, segment, n) \in Rows
  BY DEF AfterRemovals, Rows

LEMMA MergeType ==
    ASSUME NEW rows \in Rows, NEW segment \in Segment
    PROVE  Merge(rows, segment) \in Rows
  <1>1. Len(segment.upserts) \in 0..Len(segment.upserts) BY SegmentFields
  <1> QED BY <1>1, AfterUpsertsType, AfterRemovalsType DEF Merge

(* A row after a merge is the old one or one of the segment's.             *)
LEMMA MergedRow ==
    ASSUME NEW rows \in Rows, NEW segment \in Segment, NEW i \in Items,
           Merge(rows, segment)[i] # None
    PROVE  \/ Merge(rows, segment)[i] = rows[i]
           \/ \E k \in 1..Len(segment.upserts) :
                 /\ segment.upserts[k].id = i
                 /\ Merge(rows, segment)[i]
                       = [payload |-> segment.upserts[k].payload,
                          source_version |-> segment.version]
  <1>1. Len(segment.upserts) \in 0..Len(segment.upserts) BY SegmentFields
  <1>2. Merge(rows, segment)[i]
           = AfterUpserts(rows, segment, Len(segment.upserts))[i]
    BY DEF Merge, AfterRemovals
  <1> QED BY <1>1, <1>2, UpsertedRow

(* Merging a segment into rows it was just merged into changes nothing: the *)
(* replay of the newest segment is harmless.                                *)
LEMMA MergeIdempotent ==
    ASSUME NEW rows, NEW segment
    PROVE  Merge(Merge(rows, segment), segment) = Merge(rows, segment)
  <1> DEFINE U(i) == Touching(segment.upserts, i, Len(segment.upserts))
             row(i) == [payload |-> segment.upserts[Deciding(segment.upserts, i,
                                                    Len(segment.upserts))].payload,
                        source_version |-> segment.version]
             R(i) == \E k \in 1..Len(segment.removals) : segment.removals[k] = i
  <1>1. \A X : Merge(X, segment)
                = [i \in Items |-> IF R(i) THEN None ELSE IF U(i) = {} THEN X[i] ELSE row(i)]
    BY DEF Merge, AfterRemovals, AfterUpserts
  <1> HIDE DEF U, row, R
  <1>2. \A i \in Items : Merge(rows, segment)[i]
                = IF R(i) THEN None ELSE IF U(i) = {} THEN rows[i] ELSE row(i)
    BY <1>1
  <1>3. \A i \in Items :
           (IF R(i) THEN None ELSE IF U(i) = {} THEN Merge(rows, segment)[i] ELSE row(i))
             = IF R(i) THEN None ELSE IF U(i) = {} THEN rows[i] ELSE row(i)
    BY <1>2
  <1> QED BY <1>1, <1>3

---------------------------------------------------------------------------
(* One statement at a time: the closed forms follow the loops of           *)
(* apply_segment.                                                          *)

LEMMA NoUpsertsYet ==
    ASSUME NEW rows \in Rows, NEW segment
    PROVE  AfterUpserts(rows, segment, 0) = rows
  <1>1. \A i \in Items : Touching(segment.upserts, i, 0) = {} BY DEF Touching
  <1>2. AfterUpserts(rows, segment, 0) = [i \in Items |-> rows[i]]
    BY <1>1 DEF AfterUpserts
  <1> QED BY <1>2 DEF Rows

LEMMA NextUpsert ==
    ASSUME NEW rows \in Rows, NEW segment \in Segment,
           NEW n \in 0..(Len(segment.upserts) - 1)
    PROVE  AfterUpserts(rows, segment, n + 1)
             = UpsertRow(AfterUpserts(rows, segment, n),
                         segment.upserts[n + 1], segment.version)
  <1> DEFINE upserts == segment.upserts
             item == upserts[n + 1]
             before == AfterUpserts(rows, segment, n)
  <1>1. n \in Nat /\ n + 1 \in 1..Len(upserts) /\ item.id \in Items
    BY SegmentFields
  <1>2. ASSUME NEW i \in Items, i # item.id
        PROVE  AfterUpserts(rows, segment, n + 1)[i] = before[i]
    <2>1. Touching(upserts, i, n + 1) = Touching(upserts, i, n)
      BY <1>1, <1>2 DEF Touching
    <2>2. Deciding(upserts, i, n + 1) = Deciding(upserts, i, n)
      BY <2>1 DEF Deciding
    <2> QED BY <2>1, <2>2 DEF AfterUpserts
  <1>3. AfterUpserts(rows, segment, n + 1)[item.id]
           = [payload |-> item.payload, source_version |-> segment.version]
    <2>1. n + 1 \in Touching(upserts, item.id, n + 1) BY <1>1 DEF Touching
    <2>2. Deciding(upserts, item.id, n + 1) = n + 1
      BY <1>1, <2>1, DecidingTouches
    <2> QED BY <1>1, <2>1, <2>2 DEF AfterUpserts
  <1>4. before \in Rows BY AfterUpsertsType, SegmentFields
  <1>5. AfterUpserts(rows, segment, n + 1)
           = [i \in Items |-> AfterUpserts(rows, segment, n + 1)[i]]
    BY DEF AfterUpserts
  <1> HIDE DEF before, item
  <1> QED BY <1>1, <1>2, <1>3, <1>4, <1>5 DEF UpsertRow, Rows, item, before

LEMMA NoRemovalsYet ==
    ASSUME NEW rows \in Rows, NEW segment
    PROVE  AfterRemovals(rows, segment, 0) = rows
  <1>1. AfterRemovals(rows, segment, 0) = [i \in Items |-> rows[i]]
    BY DEF AfterRemovals
  <1> QED BY <1>1 DEF Rows

LEMMA NextRemoval ==
    ASSUME NEW rows \in Rows, NEW segment \in Segment,
           NEW n \in 0..(Len(segment.removals) - 1)
    PROVE  AfterRemovals(rows, segment, n + 1)
             = DeleteRow(AfterRemovals(rows, segment, n), segment.removals[n + 1])
  <1>1. n \in Nat /\ segment.removals[n + 1] \in Items BY SegmentFields
  <1>2. \A k \in 1..(n + 1) : k \in 1..n \/ k = n + 1 BY <1>1
  <1>3. ASSUME NEW i \in Items
        PROVE  AfterRemovals(rows, segment, n + 1)[i]
                 = DeleteRow(AfterRemovals(rows, segment, n), segment.removals[n + 1])[i]
    BY <1>1, <1>2 DEF AfterRemovals, DeleteRow
  <1> QED BY <1>1, <1>3 DEF AfterRemovals, DeleteRow

---------------------------------------------------------------------------
(* provider_state and applied_segments *)

States == ProviderState \union {None}

LEMMA AppliedType ==
    ASSUME NEW state \in States
    PROVE  Applied(state) \in Nat
  BY DEF Applied, States, ProviderState

LEMMA AdvanceMarkerFacts ==
    ASSUME NEW state \in States, NEW v \in Versions, NEW iv \in Versions
    PROVE  /\ AdvanceMarker(state, v, iv) \in ProviderState
           /\ AdvanceMarker(state, v, iv) # None
           /\ AdvanceMarker(state, v, iv).last_index_version = iv
           /\ Applied(AdvanceMarker(state, v, iv))
                = IF v > Applied(state) THEN v ELSE Applied(state)
  <1>1. AdvanceMarker(state, v, iv) \in ProviderState
    BY AppliedType DEF AdvanceMarker, ProviderState, Statuses, Versions
  <1>2. AdvanceMarker(state, v, iv) # None BY <1>1, NoneAssumption
  <1> QED BY <1>1, <1>2 DEF AdvanceMarker, Applied

LEMMA NoteResultFacts ==
    ASSUME NEW state \in States, NEW status \in Statuses,
           NEW iv \in Versions \union {None}
    PROVE  /\ NoteResult(state, status, iv) \in ProviderState
           /\ NoteResult(state, status, iv) # None
           /\ Applied(NoteResult(state, status, iv)) = Applied(state)
           /\ NoteResult(state, status, iv).last_index_version
                = IF iv = None THEN IndexSeen(state) ELSE iv
  <1>1. IndexSeen(state) \in Versions \union {None}
    BY DEF IndexSeen, States, ProviderState
  <1>2. NoteResult(state, status, iv) \in ProviderState
    BY <1>1, AppliedType DEF NoteResult, ProviderState
  <1>3. NoteResult(state, status, iv) # None BY <1>2, NoneAssumption
  <1> QED BY <1>2, <1>3 DEF NoteResult, Applied

LEMMA UpsertAuditFacts ==
    ASSUME NEW rows \in SUBSET AuditRow, NEW v \in Versions, NEW d \in Digests
    PROVE  /\ UpsertAudit(rows, v, d) \in SUBSET AuditRow
           /\ AuditedVersions(UpsertAudit(rows, v, d)) = AuditedVersions(rows) \union {v}
  <1> DEFINE new == [segment_version |-> v, digest |-> d]
  <1>1. new \in AuditRow /\ new.segment_version = v BY DEF AuditRow
  <1>2. UpsertAudit(rows, v, d) = {r \in rows : r.segment_version # v} \union {new}
    BY DEF UpsertAudit
  <1>3. UpsertAudit(rows, v, d) \in SUBSET AuditRow BY <1>1, <1>2
  <1>4. ASSUME NEW w
        PROVE  w \in AuditedVersions(UpsertAudit(rows, v, d))
                 <=> w \in AuditedVersions(rows) \union {v}
    <2> HIDE DEF new
    <2> QED BY <1>1, <1>2 DEF AuditedVersions
  <1> QED BY <1>3, <1>4
=============================================================================
