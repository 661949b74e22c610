--------------------------- MODULE CrawlerProofs ---------------------------
(***************************************************************************)
(* What Crawler guarantees for any number of processes, providers, files   *)
(* and publications: its types, and that the audit trail is an unbroken    *)
(* prefix of what each provider published.  The key is NoGap: below a      *)
(* version a process still has to apply, every version is either one it    *)
(* still has to apply too, or already covered by the marker.               *)
(***************************************************************************)
EXTENDS Crawler, CatalogTablesProofs

(* Where a process is determines which of its variables hold something. *)
Control(c) ==
    /\ pc[c] \in Working =>
          /\ Len(report[c]) < Len(Config)
          /\ result[c] \in Result
          /\ result[c].provider_id = Provider(c)
    /\ pc[c] \in {"state", "index", "segment", "apply"} => manifest[c] = Manifest(Provider(c))
    /\ pc[c] \in {"segment", "apply"} =>
          /\ index[c] \in IndexPayload
          /\ index[c].provider_id = Provider(c)
          /\ index[c].segments \subseteq DOMAIN Files[Provider(c)]
          /\ pending[c] # {}
          /\ pending[c] \subseteq index[c].segments
          /\ result[c].index_version = index[c].version
    /\ pc[c] = "apply" => VerifySegment(c, segment[c]) /\ segment[c] \in Digests
    /\ pc[c] = "record" => result[c].status \in {"up-to-date", "failed"}

NoGap(c) ==
    \A v \in pending[c] : \A w \in 1..v : w \in pending[c] \/ w <= LastApplied(Provider(c))

(* What a process read of the marker may be old, but never too new. *)
Behind(c) ==
    /\ pc[c] = "index" => last[c] <= LastApplied(Provider(c))
    /\ pc[c] \in {"segment", "apply"} => NoGap(c)

Inv == /\ TypeOK
       /\ AuditIsPrefix
       /\ \A c \in Procs : Control(c) /\ Behind(c)

---------------------------------------------------------------------------
(* What the code computes. *)

LEMMA EarliestFacts ==
    ASSUME NEW S \in SUBSET Versions, S # {}
    PROVE  Earliest(S) \in S /\ \A w \in S : Earliest(S) <= w
  <1>1. S \in SUBSET Nat BY DEF Versions
  <1>2. \E v \in S : \A w \in S : v <= w BY <1>1, LeastNatural
  <1> QED BY <1>2 DEF Earliest

LEMMA PendingFacts ==
    ASSUME NEW segments \in SUBSET Versions, NEW n \in Nat
    PROVE  /\ Pending(segments, n) \subseteq segments
           /\ \A v \in Pending(segments, n) : v > n
           /\ \A v \in Pending(segments, n) : \A w \in 1..v :
                 w \in Pending(segments, n) \/ w <= n
  <1>1. /\ Pending(segments, n) \subseteq segments
        /\ \A v \in Pending(segments, n) : v > n
    BY DEF Pending
  <1>2. ASSUME NEW v \in Pending(segments, n), NEW w \in 1..v, ~(w <= n)
        PROVE  w \in Pending(segments, n)
    <2>0. v \in Versions BY <1>1
    <2>1. v \in Nat /\ w \in Nat /\ w > n /\ w <= v BY <1>2, <2>0 DEF Versions
    <2>2. (n + 1)..v \subseteq segments BY DEF Pending
    <2>3. w \in (n + 1)..v /\ (n + 1)..w \subseteq (n + 1)..v BY <2>1
    <2> QED BY <2>1, <2>2, <2>3 DEF Pending
  <1> QED BY <1>1, <1>2

---------------------------------------------------------------------------
(* The loop of _select_pending_segments.                                   *)

(* After n references the list is m + 1, m + 2, ... without a gap, all of  *)
(* them seen, and what is expected next has not been seen; the loop has    *)
(* stopped once it has seen something beyond.                              *)
Selected(refs, m, n, list, expected, stopped) ==
    /\ expected = m + 1 + Len(list)
    /\ \A k \in 1..Len(list) : list[k] = m + k /\ \E j \in 1..n : refs[j] = m + k
    /\ \A j \in 1..n : refs[j] # expected
    /\ stopped => \E j \in 1..n : refs[j] > expected
    /\ ~stopped => \A j \in 1..n : refs[j] < expected

Loop(list, expected, stopped) ==
    [pending |-> list, expected |-> expected, stopped |-> stopped]

Selecting(refs, m, n, loop) ==
    \E list \in Seq(Versions), expected \in Nat, stopped \in BOOLEAN :
        /\ loop = Loop(list, expected, stopped)
        /\ Selected(refs, m, n, list, expected, stopped)

LEMMA SelectBegins ==
    ASSUME NEW m \in Nat, NEW refs
    PROVE  Selecting(refs, m, 0, SelectFirst(m))
  <1>1. <<>> \in Seq(Versions) /\ Len(<<>>) = 0 BY EmptySeq
  <1>2. 1..0 = {} /\ m + 1 \in Nat /\ m + 1 = m + 1 + 0 OBVIOUS
  <1>3. Selected(refs, m, 0, <<>>, m + 1, FALSE) BY <1>1, <1>2 DEF Selected
  <1>4. SelectFirst(m) = Loop(<<>>, m + 1, FALSE) BY DEF SelectFirst, Loop
  <1> QED BY <1>1, <1>2, <1>3, <1>4 DEF Selecting

LEMMA SelectContinues ==
    ASSUME NEW m \in Nat, NEW refs \in Seq(Versions), Ascending(refs),
           NEW n \in Nat, n + 1 \in 1..Len(refs), NEW loop, Selecting(refs, m, n, loop)
    PROVE  Selecting(refs, m, n + 1, SelectNext(loop, refs[n + 1]))
  <1>1. PICK r \in Versions : r = refs[n + 1] BY ElementOfSeq
  <1>2. PICK list \in Seq(Versions), expected \in Nat, stopped \in BOOLEAN :
           /\ loop = Loop(list, expected, stopped)
           /\ Selected(refs, m, n, list, expected, stopped)
    BY DEF Selecting
  <1>3. PICK len \in Nat : len = Len(list) BY LenProperties
  <1>4. /\ expected = m + 1 + len
        /\ \A k \in 1..len : list[k] = m + k /\ \E j \in 1..n : refs[j] = m + k
        /\ \A j \in 1..n : refs[j] # expected
        /\ stopped => \E j \in 1..n : refs[j] > expected
        /\ ~stopped => \A j \in 1..n : refs[j] < expected
    BY <1>2, <1>3 DEF Selected
  <1>5. r \in Nat /\ \A j \in 1..n : refs[j] \in Nat /\ refs[j] < r
    <2>1. \A j \in 1..n : j \in 1..Len(refs) /\ j < n + 1 BY LenProperties
    <2> QED BY <1>1, <2>1, ElementOfSeq DEF Ascending, Versions
  <1>6. /\ \A j \in 1..(n + 1) : j \in 1..n \/ refs[j] = r
        /\ 1..n \subseteq 1..(n + 1) /\ n + 1 \in 1..(n + 1)
    BY <1>1
  <1>7. \A k \in 1..len : list[k] = m + k /\ \E j \in 1..(n + 1) : refs[j] = m + k
    BY <1>4, <1>6
  <1>8. CASE stopped \/ r < expected
    <2>1. SelectNext(loop, r) = Loop(list, expected, stopped)
      BY <1>2, <1>8 DEF SelectNext, Loop
    <2>2. r # expected BY <1>4, <1>5, <1>8
    <2>3. Selected(refs, m, n + 1, list, expected, stopped)
      <3>1. \A j \in 1..(n + 1) : refs[j] # expected BY <1>4, <1>6, <2>2
      <3>2. stopped => \E j \in 1..(n + 1) : refs[j] > expected BY <1>4, <1>6
      <3>3. ~stopped => \A j \in 1..(n + 1) : refs[j] < expected BY <1>4, <1>6, <1>8
      <3> QED BY <1>3, <1>4, <1>7, <3>1, <3>2, <3>3 DEF Selected
    <2> QED BY <1>1, <2>1, <2>3 DEF Selecting
  <1>9. CASE ~stopped /\ r > expected
    <2>1. SelectNext(loop, r) = Loop(list, expected, TRUE)
      <3>1. ~(stopped \/ r < expected) /\ r # expected BY <1>5, <1>9
      <3> QED BY <1>2, <3>1 DEF SelectNext, Loop
    <2>2. Selected(refs, m, n + 1, list, expected, TRUE)
      <3>1. \A j \in 1..(n + 1) : refs[j] # expected BY <1>4, <1>5, <1>6, <1>9
      <3>2. \E j \in 1..(n + 1) : refs[j] > expected BY <1>1, <1>6, <1>9
      <3> QED BY <1>3, <1>4, <1>7, <3>1, <3>2 DEF Selected
    <2> QED BY <1>1, <2>1, <2>2 DEF Selecting
  <1>10. CASE ~stopped /\ r = expected
    <2>1. PICK longer : longer = Append(list, r) OBVIOUS
    <2>2. SelectNext(loop, r) = Loop(longer, expected + 1, FALSE)
      <3>1. ~(stopped \/ r < expected) /\ r = expected /\ stopped = FALSE BY <1>5, <1>10
      <3> QED BY <1>2, <2>1, <3>1 DEF SelectNext, Loop
    <2>3. /\ longer \in Seq(Versions) /\ Len(longer) = len + 1
          /\ \A k \in 1..len : longer[k] = list[k]
          /\ longer[len + 1] = r
      BY <1>3, <2>1, AppendProperties
    <2>4. \A j \in 1..(n + 1) : refs[j] \in Nat /\ refs[j] < expected + 1
      BY <1>5, <1>6, <1>10
    <2>5. ASSUME NEW k \in 1..(len + 1)
          PROVE  longer[k] = m + k /\ \E j \in 1..(n + 1) : refs[j] = m + k
      <3>1. CASE k \in 1..len BY <1>7, <2>3, <3>1
      <3>2. CASE k = len + 1
        <4>1. r = m + k BY <1>4, <1>10, <3>2
        <4> QED BY <1>1, <1>6, <2>3, <3>2, <4>1
      <3> QED BY <3>1, <3>2
    <2>6. expected + 1 = m + 1 + (len + 1) /\ expected + 1 \in Nat BY <1>4
    <2>7. \A j \in 1..(n + 1) : refs[j] # expected + 1 BY <2>4
    <2>8. Selected(refs, m, n + 1, longer, expected + 1, FALSE)
      BY <2>3, <2>4, <2>5, <2>6, <2>7 DEF Selected
    <2> QED BY <1>1, <2>2, <2>3, <2>6, <2>8 DEF Selecting
  <1> QED BY <1>5, <1>8, <1>9, <1>10

LEMMA SelectReturns ==
    ASSUME NEW m \in Nat, NEW refs \in Seq(Versions), NEW loop,
           Selecting(refs, m, Len(refs), loop),
           NEW list, list = loop.pending
    PROVE  /\ list \in Seq(Versions) /\ Ascending(list)
           /\ VersionsOf(list) = Pending(VersionsOf(refs), m)
  <1>0. PICK segments : segments = VersionsOf(refs) OBVIOUS
  <1>1. PICK chosen \in Seq(Versions), expected \in Nat, stopped \in BOOLEAN :
           /\ loop = Loop(chosen, expected, stopped)
           /\ Selected(refs, m, Len(refs), chosen, expected, stopped)
    BY DEF Selecting
  <1>2. list = chosen BY <1>1 DEF Loop
  <1>3. PICK len \in Nat : len = Len(list) BY <1>2, LenProperties
  <1>4. /\ list \in Seq(Versions)
        /\ \A k \in 1..len : list[k] = m + k /\ m + k \in segments
        /\ m + 1 + len \notin segments
    BY <1>0, <1>1, <1>2, <1>3 DEF Selected, VersionsOf
  <1>5. Ascending(list) BY <1>3, <1>4 DEF Ascending
  <1>6. segments \subseteq Versions BY <1>0, ElementOfSeq DEF VersionsOf
  <1>7. ASSUME NEW k \in 1..len PROVE list[k] \in Pending(segments, m)
    <2>1. list[k] = m + k /\ m + k \in segments /\ m + k > m BY <1>4
    <2>2. ASSUME NEW v \in (m + 1)..(m + k) PROVE v \in segments
      <3>1. v - m \in 1..len /\ m + (v - m) = v OBVIOUS
      <3> QED BY <1>4, <3>1
    <2> QED BY <2>1, <2>2 DEF Pending
  <1>8. ASSUME NEW v \in Pending(segments, m) PROVE \E k \in 1..len : v = list[k]
    <2>1. v \in segments /\ v > m /\ (m + 1)..v \subseteq segments BY DEF Pending
    <2>2. v \in Nat BY <1>6, <2>1 DEF Versions
    <2>3. m + 1 + len \notin (m + 1)..v BY <1>4, <2>1
    <2>4. v < m + 1 + len BY <2>2, <2>3
    <2>5. v - m \in 1..len /\ m + (v - m) = v BY <2>1, <2>2, <2>4
    <2> QED BY <1>4, <2>5
  <1>9. {list[k] : k \in 1..len} = Pending(segments, m) BY <1>7, <1>8
  <1> QED BY <1>0, <1>3, <1>4, <1>5, <1>9 DEF VersionsOf

(* What the loop of _select_pending_segments returns, on any list of        *)
(* references from_dict has sorted and found free of duplicates: the        *)
(* versions of Pending, each once and the earliest first.                   *)
THEOREM SelectionIsPending ==
    ASSUME NEW last_applied \in Nat, NEW refs \in Seq(Versions), Ascending(refs),
           NEW walk, walk[0] = SelectFirst(last_applied),
           \A n \in 1..Len(refs) : walk[n] = SelectNext(walk[n - 1], refs[n]),
           NEW list, list = walk[Len(refs)].pending
    PROVE  /\ list \in Seq(Versions) /\ Ascending(list)
           /\ VersionsOf(list) = Pending(VersionsOf(refs), last_applied)
  <1>1. Len(refs) \in Nat BY LenProperties
  <1> DEFINE Wrong == {n \in 0..Len(refs) : ~Selecting(refs, last_applied, n, walk[n])}
  <1>2. ASSUME Wrong # {} PROVE FALSE
    <2>1. Wrong \in SUBSET Nat BY <1>1
    <2>2. PICK n \in Wrong : \A w \in Wrong : n <= w
      <3> HIDE DEF Wrong
      <3> QED BY <1>2, <2>1, LeastNatural
    <2>3. n # 0 BY SelectBegins
    <2>4. n - 1 \in Nat /\ (n - 1) + 1 = n /\ n \in 1..Len(refs) /\ n - 1 \in 0..Len(refs)
      BY <1>1, <2>3
    <2>5. n - 1 \notin Wrong
      <3> HIDE DEF Wrong
      <3>1. n \in Nat /\ ~(n <= n - 1) BY <2>4
      <3> QED BY <2>2, <3>1
    <2>6. Selecting(refs, last_applied, n - 1, walk[n - 1]) BY <2>4, <2>5
    <2>7. PICK i \in Nat : i = n - 1 /\ i + 1 = n BY <2>4
    <2>8. Selecting(refs, last_applied, i + 1, SelectNext(walk[i], refs[i + 1]))
      BY <2>4, <2>6, <2>7, SelectContinues
    <2>9. walk[n] = SelectNext(walk[n - 1], refs[n]) BY <2>4
    <2> QED BY <2>2, <2>7, <2>8, <2>9
  <1>3. Len(refs) \in 0..Len(refs) BY <1>1
  <1>4. Selecting(refs, last_applied, Len(refs), walk[Len(refs)]) BY <1>2, <1>3
  <1> HIDE DEF Wrong
  <1> QED BY <1>4, SelectReturns

---------------------------------------------------------------------------
(* The published documents. *)
LEMMA Documents ==
    ASSUME NEW p \in Providers
    PROVE  /\ Files[p] \in Seq(Digests)
           /\ DOMAIN Files[p] \subseteq Versions
           /\ \A v \in DOMAIN Files[p] : 1..v \subseteq DOMAIN Files[p] /\ Files[p][v] \in Digests
           /\ \A k \in DOMAIN Publications[p] :
                 /\ Publications[p][k] \in IndexPayload
                 /\ Publications[p][k].version \in Versions
                 /\ Publications[p][k].provider_id = p
                 /\ Publications[p][k].segments \subseteq DOMAIN Files[p]
                 /\ Publications[p][k].segments \in SUBSET Versions
  <1>1. Files[p] \in Seq(Digests) /\ Publications[p] \in Seq(IndexPayload)
    BY ProvidersAssumption
  <1>2. DOMAIN Files[p] = 1..Len(Files[p]) /\ Len(Files[p]) \in Nat
    BY <1>1, LenProperties
  <1>3. \A v \in 1..Len(Files[p]) : Files[p][v] \in Digests BY <1>1, ElementOfSeq
  <1>4. DOMAIN Publications[p] = 1..Len(Publications[p]) BY <1>1, LenProperties
  <1>5. \A k \in DOMAIN Publications[p] : Publications[p][k] \in IndexPayload
    BY <1>1, <1>4, ElementOfSeq
  <1>6. \A k \in DOMAIN Publications[p] :
           /\ Publications[p][k].provider_id = p
           /\ Publications[p][k].segments \subseteq DOMAIN Files[p]
    BY ProvidersAssumption
  <1>7. DOMAIN Files[p] \subseteq Versions BY <1>2 DEF Versions
  <1>8. \A v \in DOMAIN Files[p] : 1..v \subseteq DOMAIN Files[p] BY <1>2
  <1>9. \A k \in DOMAIN Publications[p] : Publications[p][k].version \in Versions
    BY <1>5 DEF IndexPayload
  <1> QED BY <1>1, <1>2, <1>3, <1>5, <1>6, <1>7, <1>8, <1>9

LEMMA ConfigFacts ==
    /\ Len(Config) \in Nat \ {0}
    /\ \A n \in 1..Len(Config) : Config[n] \in Providers
  <1>1. Config \in Seq(Providers) /\ Config # <<>> BY ProvidersAssumption
  <1>2. Len(Config) \in Nat BY <1>1, LenProperties
  <1>3. Len(Config) # 0 BY <1>1, EmptySeq
  <1>4. \A n \in 1..Len(Config) : Config[n] \in Providers BY <1>1, ElementOfSeq
  <1> QED BY <1>2, <1>3, <1>4

---------------------------------------------------------------------------
(* The database: DB has its own copy of the table operators. *)

LEMMA SameOperators ==
    /\ \A rows, s : DB!Merge(rows, s) = Merge(rows, s)
    /\ \A rows, v, d : DB!UpsertAudit(rows, v, d) = UpsertAudit(rows, v, d)
    /\ \A s, v, iv : DB!AdvanceMarker(s, v, iv) = AdvanceMarker(s, v, iv)
    /\ \A s, status, iv : DB!NoteResult(s, status, iv) = NoteResult(s, status, iv)
    /\ \A p : LastApplied(p) = Applied(provider_state[p])
    /\ DB!TypeOK <=> /\ catalog_items \in [Providers -> Rows]
                     /\ provider_state \in [Providers -> States]
                     /\ applied_segments \in [Providers -> SUBSET AuditRow]
    /\ \A p : LastApplied(p)' = Applied(provider_state'[p])
    /\ DB!TypeOK' <=> /\ catalog_items' \in [Providers -> Rows]
                      /\ provider_state' \in [Providers -> States]
                      /\ applied_segments' \in [Providers -> SUBSET AuditRow]
  <1>1. \A rows, s, n :
           /\ DB!AfterUpserts(rows, s, n) = AfterUpserts(rows, s, n)
           /\ DB!AfterRemovals(rows, s, n) = AfterRemovals(rows, s, n)
    BY DEF DB!AfterUpserts, AfterUpserts, DB!AfterRemovals, AfterRemovals,
           DB!Touching, Touching, DB!Deciding, Deciding
  <1>2. \A rows, s : DB!Merge(rows, s) = Merge(rows, s) BY <1>1 DEF DB!Merge, Merge
  <1>3. \A rows, v, d : DB!UpsertAudit(rows, v, d) = UpsertAudit(rows, v, d)
    BY DEF DB!UpsertAudit, UpsertAudit
  <1>4. /\ \A s, v, iv : DB!AdvanceMarker(s, v, iv) = AdvanceMarker(s, v, iv)
        /\ \A s, status, iv : DB!NoteResult(s, status, iv) = NoteResult(s, status, iv)
    BY DEF DB!AdvanceMarker, AdvanceMarker, DB!NoteResult, NoteResult,
           DB!Applied, Applied, DB!IndexSeen, IndexSeen
  <1>5. \A p : /\ LastApplied(p) = Applied(provider_state[p])
               /\ LastApplied(p)' = Applied(provider_state'[p])
    BY DEF LastApplied, DB!LastApplied, DB!Applied, Applied
  <1>6. /\ DB!Row = Row /\ DB!ProviderState = ProviderState /\ DB!AuditRow = AuditRow
    BY DEF DB!Row, Row, DB!ProviderState, ProviderState, DB!AuditRow, AuditRow,
           DB!Versions, Versions, DB!Statuses, Statuses
  <1>7. DB!TypeOK <=> /\ catalog_items \in [Providers -> Rows]
                      /\ provider_state \in [Providers -> States]
                      /\ applied_segments \in [Providers -> SUBSET AuditRow]
    BY <1>6 DEF DB!TypeOK, Rows, States
  <1>8. DB!TypeOK' <=> /\ catalog_items' \in [Providers -> Rows]
                       /\ provider_state' \in [Providers -> States]
                       /\ applied_segments' \in [Providers -> SUBSET AuditRow]
    BY <1>6 DEF DB!TypeOK, Rows, States
  <1> QED BY <1>2, <1>3, <1>4, <1>5, <1>7, <1>8

LEMMA Typed ==
    ASSUME TypeOK, NEW p \in Providers
    PROVE  /\ catalog_items[p] \in Rows
           /\ provider_state[p] \in States
           /\ applied_segments[p] \in SUBSET AuditRow
           /\ LastApplied(p) \in Nat
  BY SameOperators, AppliedType DEF TypeOK

(* Applying a segment. *)
LEMMA ApplySegmentFacts ==
    ASSUME TypeOK, NEW p \in Providers, NEW s \in Segment,
           NEW digest \in Digests, NEW iv \in Versions,
           DB!ApplySegment(p, s, digest, iv)
    PROVE  /\ DB!TypeOK'
           /\ catalog_items'[p] = Merge(catalog_items[p], s)
           /\ applied_segments'[p] = UpsertAudit(applied_segments[p], s.version, digest)
           /\ LastApplied(p)'
                = IF s.version > LastApplied(p) THEN s.version ELSE LastApplied(p)
           /\ \A q \in Providers \ {p} :
                 /\ catalog_items'[q] = catalog_items[q]
                 /\ applied_segments'[q] = applied_segments[q]
                 /\ LastApplied(q)' = LastApplied(q)
  <1> s.version \in Versions BY SegmentFields
  <1>1. /\ catalog_items' = [catalog_items EXCEPT ![p] = Merge(@, s)]
        /\ applied_segments' = [applied_segments EXCEPT ![p] = UpsertAudit(@, s.version, digest)]
        /\ provider_state' = [provider_state EXCEPT ![p] = AdvanceMarker(@, s.version, iv)]
    BY SameOperators DEF DB!ApplySegment
  <1>2. /\ catalog_items \in [Providers -> Rows]
        /\ provider_state \in [Providers -> States]
        /\ applied_segments \in [Providers -> SUBSET AuditRow]
    BY SameOperators DEF TypeOK
  <1>3. /\ Merge(catalog_items[p], s) \in Rows
        /\ UpsertAudit(applied_segments[p], s.version, digest) \in SUBSET AuditRow
        /\ AdvanceMarker(provider_state[p], s.version, iv) \in States
    BY <1>2, MergeType, UpsertAuditFacts, AdvanceMarkerFacts DEF States
  <1>4. /\ catalog_items' \in [Providers -> Rows]
        /\ provider_state' \in [Providers -> States]
        /\ applied_segments' \in [Providers -> SUBSET AuditRow]
    BY <1>1, <1>2, <1>3
  <1>5. DB!TypeOK' BY <1>4, SameOperators
  <1>6. /\ catalog_items'[p] = Merge(catalog_items[p], s)
        /\ applied_segments'[p] = UpsertAudit(applied_segments[p], s.version, digest)
        /\ provider_state'[p] = AdvanceMarker(provider_state[p], s.version, iv)
        /\ \A q \in Providers \ {p} :
              /\ catalog_items'[q] = catalog_items[q]
              /\ applied_segments'[q] = applied_segments[q]
              /\ provider_state'[q] = provider_state[q]
    BY <1>1, <1>2
  <1>7. Applied(provider_state'[p])
           = IF s.version > Applied(provider_state[p]) THEN s.version
             ELSE Applied(provider_state[p])
    BY <1>2, <1>6, AdvanceMarkerFacts
  <1> QED BY <1>5, <1>6, <1>7, SameOperators

(* Recording a result. *)
LEMMA RecordCrawlResultFacts ==
    ASSUME TypeOK, NEW p \in Providers, NEW status \in Statuses,
           NEW iv \in Versions \union {None},
           DB!RecordCrawlResult(p, status, iv)
    PROVE  /\ DB!TypeOK'
           /\ UNCHANGED <<catalog_items, applied_segments>>
           /\ \A q \in Providers : LastApplied(q)' = LastApplied(q)
  <1>1. /\ UNCHANGED <<catalog_items, applied_segments>>
        /\ provider_state' = [provider_state EXCEPT ![p] = NoteResult(@, status, iv)]
    BY SameOperators DEF DB!RecordCrawlResult
  <1>2. /\ catalog_items \in [Providers -> Rows]
        /\ provider_state \in [Providers -> States]
        /\ applied_segments \in [Providers -> SUBSET AuditRow]
    BY SameOperators DEF TypeOK
  <1>3. /\ NoteResult(provider_state[p], status, iv) \in States
        /\ Applied(NoteResult(provider_state[p], status, iv)) = Applied(provider_state[p])
    BY <1>2, NoteResultFacts DEF States
  <1>4. /\ catalog_items' \in [Providers -> Rows]
        /\ provider_state' \in [Providers -> States]
        /\ applied_segments' \in [Providers -> SUBSET AuditRow]
    BY <1>1, <1>2, <1>3
  <1>5. DB!TypeOK' BY <1>4, SameOperators
  <1>6. \A q \in Providers : Applied(provider_state'[q]) = Applied(provider_state[q])
    BY <1>1, <1>2, <1>3
  <1> QED BY <1>1, <1>5, <1>6, SameOperators

---------------------------------------------------------------------------
(* One process moves at a time. *)

Untouched(d) ==
    /\ pc'[d] = pc[d] /\ report'[d] = report[d] /\ result'[d] = result[d]
    /\ manifest'[d] = manifest[d] /\ last'[d] = last[d] /\ index'[d] = index[d]
    /\ pending'[d] = pending[d] /\ segment'[d] = segment[d]

LEMMA StepTouchesOne ==
    ASSUME TypeOK, NEW c \in Procs, Step(c) \/ Crash(c), NEW d \in Procs \ {c}
    PROVE  Untouched(d)
  <1> USE DEF TypeOK, Untouched
  <1>1. CASE Start(c) BY <1>1 DEF Start, Goto
  <1>2. CASE AcceptManifest(c) BY <1>2 DEF AcceptManifest, Goto
  <1>3. CASE RejectManifest(c) BY <1>3 DEF RejectManifest, Failed, Goto
  <1>4. CASE ReadState(c) BY <1>4 DEF ReadState, Goto
  <1>5. CASE AcceptIndex(c) BY <1>5 DEF AcceptIndex, Goto
  <1>6. CASE RejectIndex(c) BY <1>6 DEF RejectIndex, Failed, Goto
  <1>7. CASE AcceptSegment(c) BY <1>7 DEF AcceptSegment, Goto
  <1>8. CASE RejectSegment(c) BY <1>8 DEF RejectSegment, Failed, Goto
  <1>9. CASE FetchFails(c) BY <1>9 DEF FetchFails, Failed, Goto
  <1>10. CASE Apply(c) BY <1>10 DEF Apply, Finish, Forget, Goto
  <1>11. CASE ApplyFails(c) BY <1>11 DEF ApplyFails, Failed, Goto
  <1>12. CASE Record(c) BY <1>12 DEF Record, Finish, Forget, Goto
  <1>13. CASE RecordUpToDateFails(c) BY <1>13 DEF RecordUpToDateFails, Failed, Goto
  <1>14. CASE RecordFailedFails(c) BY <1>14 DEF RecordFailedFails, Finish, Forget, Goto
  <1>15. CASE Overflow(c) BY <1>15 DEF Overflow, Stop, Forget, Goto
  <1>16. CASE Escape(c) BY <1>16 DEF Escape, Stop, Forget, Goto
  <1>17. CASE Crash(c) BY <1>17 DEF Crash, Stop, Forget, Goto
  <1> QED BY <1>1, <1>2, <1>3, <1>4, <1>5, <1>6, <1>7, <1>8, <1>9, <1>10, <1>11,
             <1>12, <1>13, <1>14, <1>15, <1>16, <1>17 DEF Step

LEMMA ProviderOf ==
    ASSUME TypeOK, NEW c \in Procs, Control(c), pc[c] \in Working
    PROVE  Provider(c) \in Providers
  <1>1. Len(report[c]) \in Nat /\ Len(report[c]) < Len(Config)
    BY LenProperties DEF TypeOK, Control
  <1>2. Len(report[c]) + 1 \in 1..Len(Config) BY <1>1, ConfigFacts
  <1> QED BY <1>2, ConfigFacts DEF Provider

(* A process that did not move is as well off as before, while the markers *)
(* only grow.                                                              *)
LEMMA UntouchedKeeps ==
    ASSUME TypeOK, NEW d \in Procs, Untouched(d), Control(d), Behind(d),
           \A p \in Providers : LastApplied(p)' \in Nat /\ LastApplied(p)' >= LastApplied(p)
    PROVE  Control(d)' /\ Behind(d)'
  <1>1. Provider(d)' = Provider(d) BY DEF Untouched, Provider
  <1>2. pc[d] = "apply" => (VerifySegment(d, segment[d])' <=> VerifySegment(d, segment[d]))
    BY <1>1 DEF Untouched, VerifySegment, Ref, Version
  <1>3. Control(d)' BY <1>1, <1>2 DEF Control, Untouched
  <1>4. Behind(d)'
    <2>1. CASE pc[d] \notin {"index", "segment", "apply"}
      BY <2>1 DEF Behind, Untouched
    <2>2. CASE pc[d] \in {"index", "segment", "apply"}
      <3>1. PICK p \in Providers : p = Provider(d) BY <2>2, ProviderOf DEF Working
      <3>2. LastApplied(p) \in Nat /\ LastApplied(p)' \in Nat /\ LastApplied(p)' >= LastApplied(p)
        BY Typed
      <3>4. LastApplied(Provider(d))' = LastApplied(p)'
        BY <1>1, <3>1 DEF LastApplied, DB!LastApplied
      <3>5. CASE pc[d] = "index"
        <4>1. last[d] \in Nat /\ last[d] <= LastApplied(p)
          BY <3>1, <3>5 DEF TypeOK, Behind
        <4>2. last'[d] = last[d] /\ pc'[d] = "index" BY <3>5 DEF Untouched
        <4>3. last'[d] <= LastApplied(p)' BY <3>2, <4>1, <4>2
        <4> QED BY <3>4, <4>2, <4>3 DEF Behind
      <3>6. CASE pc[d] \in {"segment", "apply"}
        <4>1. pending'[d] = pending[d] /\ pc'[d] = pc[d] BY DEF Untouched
        <4>2. \A v \in pending[d] : \A w \in 1..v : w \in pending[d] \/ w <= LastApplied(p)
          BY <3>1, <3>6 DEF Behind, NoGap
        <4>3. \A v \in pending[d] : \A w \in 1..v : w \in pending[d] \/ w <= LastApplied(p)'
          BY <3>2, <4>2
        <4>4. NoGap(d)' BY <3>4, <4>1, <4>3 DEF NoGap
        <4> QED BY <3>6, <4>1, <4>4 DEF Behind
      <3> QED BY <2>2, <3>5, <3>6
    <2> QED BY <2>1, <2>2
  <1> QED BY <1>3, <1>4

---------------------------------------------------------------------------
(* The shared pieces of control flow. *)

FaultsOK == faults \in 0..MaxFaults

LEMMA FaultsStay ==
    ASSUME TypeOK, NEW p, NEW genuine,
           Reply(p, genuine) \/ Fault(p) \/ StorageFault \/ UNCHANGED faults
    PROVE  FaultsOK'
  <1>1. faults \in 0..MaxFaults /\ MaxFaults \in Nat BY BoundsAssumption DEF TypeOK
  <1> QED BY <1>1 DEF Reply, Fault, StorageFault, FaultsOK

LEMMA TablesStay ==
    ASSUME TypeOK, UNCHANGED tables
    PROVE  /\ DB!TypeOK' /\ (AuditIsPrefix => AuditIsPrefix')
           /\ \A p \in Providers : LastApplied(p)' = LastApplied(p)
  <1>1. /\ catalog_items' = catalog_items /\ provider_state' = provider_state
        /\ applied_segments' = applied_segments
    BY DEF tables
  <1>2. \A p \in Providers : LastApplied(p)' = LastApplied(p) BY <1>1, SameOperators
  <1>3. DB!TypeOK' BY <1>1, SameOperators DEF TypeOK
  <1>4. AuditIsPrefix => AuditIsPrefix' BY <1>1, <1>2 DEF AuditIsPrefix
  <1> QED BY <1>2, <1>3, <1>4

LEMMA StopKeeps ==
    ASSUME TypeOK, NEW c \in Procs, NEW how \in Resting, Stop(c, how), FaultsOK'
    PROVE  TypeOK' /\ Control(c)' /\ Behind(c)' /\ UNCHANGED tables
  <1>1. UNCHANGED tables /\ DB!TypeOK' BY TablesStay DEF Stop
  <1>2. pc'[c] = how BY DEF TypeOK, Stop, Goto
  <1>3. TypeOK' BY <1>1 DEF TypeOK, FaultsOK, Stop, Goto, Forget
  <1>4. Control(c)' /\ Behind(c)' BY <1>2 DEF Control, Behind, Working, Resting
  <1> QED BY <1>1, <1>3, <1>4

LEMMA ResultWith ==
    ASSUME NEW r \in Result, NEW status \in Statuses
    PROVE  /\ [r EXCEPT !.status = status] \in Result
           /\ [r EXCEPT !.status = status].status = status
           /\ [r EXCEPT !.status = status].provider_id = r.provider_id
  BY DEF Result

LEMMA FailedKeeps ==
    ASSUME TypeOK, NEW c \in Procs, Control(c), pc[c] \in Working, Failed(c), FaultsOK'
    PROVE  TypeOK' /\ Control(c)' /\ Behind(c)' /\ UNCHANGED tables
  <1>1. UNCHANGED tables /\ DB!TypeOK' BY TablesStay DEF Failed
  <1>2. pc'[c] = "record" BY DEF TypeOK, Failed, Goto
  <1>3. result[c] \in Result /\ result[c].provider_id = Provider(c)
        /\ Len(report[c]) < Len(Config)
    BY DEF Control
  <1>4. result' = [result EXCEPT ![c] = [result[c] EXCEPT !.status = "failed"]]
    BY DEF Failed
  <1>5. result'[c] = [result[c] EXCEPT !.status = "failed"] BY <1>4 DEF TypeOK
  <1>6. result'[c] \in Result /\ result'[c].status = "failed"
        /\ result'[c].provider_id = Provider(c)
    <2>1. "failed" \in Statuses BY DEF Statuses
    <2> QED BY <1>3, <1>5, <2>1, ResultWith
  <1>7. result' \in [Procs -> Result \union {None}]
    <2>1. result' = [result EXCEPT ![c] = result'[c]] BY <1>4, <1>5
    <2> QED BY <1>6, <2>1 DEF TypeOK
  <1>8. pc' \in [Procs -> Working \union Resting]
    BY DEF TypeOK, Failed, Goto, Working
  <1>9. TypeOK' BY <1>1, <1>7, <1>8 DEF TypeOK, FaultsOK, Failed
  <1>10. Provider(c)' = Provider(c) /\ report' = report BY DEF Failed, Provider
  <1>11. Control(c)' BY <1>2, <1>3, <1>6, <1>10 DEF Control
  <1>12. Behind(c)' BY <1>2 DEF Behind
  <1> QED BY <1>1, <1>9, <1>11, <1>12

LEMMA NewResultType ==
    ASSUME NEW p \in Providers
    PROVE  NewResult(p) \in Result /\ NewResult(p).provider_id = p
  BY DEF NewResult, Result, Statuses

LEMMA FinishKeeps ==
    ASSUME TypeOK, NEW c \in Procs, Control(c), pc[c] \in Working,
           NEW r \in Result, Finish(c, r),
           DB!TypeOK', UNCHANGED published, FaultsOK'
    PROVE  TypeOK' /\ Control(c)' /\ Behind(c)'
  <1>1. report[c] \in Seq(Result) /\ Len(report[c]) \in Nat /\ Len(report[c]) < Len(Config)
    BY LenProperties DEF TypeOK, Control
  <1>2. report'[c] = Append(report[c], r) BY DEF TypeOK, Finish
  <1>3. Append(report[c], r) \in Seq(Result) /\ Len(Append(report[c], r)) = Len(report[c]) + 1
    BY <1>1, AppendProperties
  <1>4. report' \in [Procs -> Seq(Result)] BY <1>3 DEF TypeOK, Finish
  <1>5. Provider(c)' = Config[Len(report[c]) + 2]
    <2>1. Len(report'[c]) + 1 = Len(report[c]) + 2 BY <1>1, <1>2, <1>3
    <2> QED BY <2>1 DEF Provider
  <1>6. /\ manifest' \in [Procs -> {Manifest(p) : p \in Providers} \union {None}]
        /\ last' \in [Procs -> Nat]
        /\ index' \in [Procs -> IndexPayload \union {None}]
        /\ pending' \in [Procs -> SUBSET Versions]
        /\ segment' \in [Procs -> Digests \union {None}]
    BY DEF TypeOK, Finish, Forget
  <1>7. CASE Len(report[c]) + 1 = Len(Config)
    <2>1. Goto(c, "exited") /\ result' = [result EXCEPT ![c] = None]
      BY <1>7 DEF Finish
    <2>2. pc'[c] = "exited" /\ pc' \in [Procs -> Working \union Resting]
      BY <2>1 DEF TypeOK, Goto, Resting
    <2>3. result' \in [Procs -> Result \union {None}] BY <2>1 DEF TypeOK
    <2>4. TypeOK' BY <1>4, <1>6, <2>2, <2>3 DEF TypeOK, FaultsOK
    <2> QED BY <2>2, <2>4 DEF Control, Behind, Working
  <1>8. CASE Len(report[c]) + 1 # Len(Config)
    <2>1. Goto(c, "manifest")
          /\ result' = [result EXCEPT ![c] = NewResult(Config[Len(report[c]) + 2])]
      BY <1>8 DEF Finish
    <2>2. Config[Len(report[c]) + 2] \in Providers
          /\ Len(report[c]) + 1 < Len(Config)
      <3>1. Len(Config) \in Nat BY ConfigFacts
      <3>2. Len(report[c]) + 2 \in 1..Len(Config) BY <1>1, <1>8, <3>1
      <3> QED BY <1>1, <3>1, <3>2, ConfigFacts
    <2>3. pc'[c] = "manifest" /\ pc' \in [Procs -> Working \union Resting]
      BY <2>1 DEF TypeOK, Goto, Working
    <2>4. result'[c] = NewResult(Config[Len(report[c]) + 2])
          /\ result' \in [Procs -> Result \union {None}]
      BY <2>1, <2>2, NewResultType DEF TypeOK
    <2>5. TypeOK' BY <1>4, <1>6, <2>3, <2>4 DEF TypeOK, FaultsOK
    <2>6. Len(report[c])' < Len(Config) BY <1>2, <1>3, <2>2
    <2>7. result'[c] \in Result /\ result'[c].provider_id = Provider(c)'
      BY <1>5, <2>2, <2>4, NewResultType
    <2>8. Control(c)' BY <2>3, <2>6, <2>7 DEF Control
    <2>9. Behind(c)' BY <2>3 DEF Behind
    <2> QED BY <2>5, <2>8, <2>9
  <1> QED BY <1>7, <1>8

---------------------------------------------------------------------------
(* One step of a process, as far as that process is concerned. *)

LEMMA StartKeeps ==
    ASSUME TypeOK, NEW c \in Procs, Start(c)
    PROVE  TypeOK' /\ Control(c)' /\ Behind(c)' /\ UNCHANGED tables
  <1>1. UNCHANGED tables /\ DB!TypeOK' /\ UNCHANGED world BY TablesStay DEF Start
  <1>2. pc'[c] = "manifest" /\ pc' \in [Procs -> Working \union Resting]
    BY DEF TypeOK, Start, Goto, Working
  <1>3. Len(Config) \in Nat \ {0} /\ Config[1] \in Providers
    <2>1. 1 \in 1..Len(Config) BY ConfigFacts
    <2> QED BY <2>1, ConfigFacts
  <1>4. report' = [report EXCEPT ![c] = <<>>] /\ report'[c] = <<>> BY DEF TypeOK, Start
  <1>5. report' \in [Procs -> Seq(Result)]
    <2>1. <<>> \in Seq(Result) BY EmptySeq
    <2> QED BY <1>4, <2>1 DEF TypeOK
  <1>6. Provider(c)' = Config[1] /\ Len(report[c])' = 0
    <2>1. Len(report'[c]) = 0 BY <1>4, EmptySeq
    <2>2. Len(report'[c]) + 1 = 1 BY <2>1
    <2> QED BY <2>1, <2>2 DEF Provider
  <1>7. result' = [result EXCEPT ![c] = NewResult(Config[1])]
        /\ result'[c] = NewResult(Config[1])
    BY DEF TypeOK, Start
  <1>8. result' \in [Procs -> Result \union {None}]
        /\ result'[c] \in Result /\ result'[c].provider_id = Config[1]
    BY <1>3, <1>7, NewResultType DEF TypeOK
  <1>9. TypeOK' BY <1>1, <1>2, <1>5, <1>8 DEF TypeOK, Start, world
  <1>10. Control(c)'
    <2>1. Len(report[c])' < Len(Config) BY <1>3, <1>6
    <2> QED BY <1>2, <1>6, <1>8, <2>1 DEF Control
  <1>11. Behind(c)' BY <1>2 DEF Behind
  <1> QED BY <1>1, <1>9, <1>10, <1>11

LEMMA ManifestKeeps ==
    ASSUME TypeOK, NEW c \in Procs, Control(c), AcceptManifest(c) \/ RejectManifest(c)
    PROVE  TypeOK' /\ Control(c)' /\ Behind(c)' /\ UNCHANGED tables
  <1>1. PICK q \in Providers :
           /\ ManifestServed(c, q)
           /\ \/ /\ VerifyManifest(Manifest(q), Provider(c))
                 /\ manifest' = [manifest EXCEPT ![c] = Manifest(q)]
                 /\ Goto(c, "state")
                 /\ UNCHANGED <<tables, published, last, index, pending, segment,
                                result, report>>
              \/ Failed(c)
    BY DEF AcceptManifest, RejectManifest
  <1>2. pc[c] = "manifest" /\ pc[c] \in Working BY <1>1 DEF ManifestServed, Working
  <1>3. FaultsOK' BY <1>1, FaultsStay DEF ManifestServed
  <1>4. CASE Failed(c) BY <1>2, <1>3, <1>4, FailedKeeps
  <1>5. CASE ~Failed(c)
    <2>1. UNCHANGED <<tables, published, last, index, pending, segment, result, report>>
      BY <1>1, <1>5
    <2>2. UNCHANGED tables /\ DB!TypeOK' BY <2>1, TablesStay
    <2>3. pc'[c] = "state" /\ pc' \in [Procs -> Working \union Resting]
      BY <1>1, <1>5 DEF TypeOK, Goto, Working
    <2>4. /\ manifest' \in [Procs -> {Manifest(p) : p \in Providers} \union {None}]
          /\ manifest'[c] = Manifest(q)
      BY <1>1, <1>5 DEF TypeOK
    <2>5. q = Provider(c) BY <1>1, <1>5 DEF VerifyManifest, Manifest
    <2>6. TypeOK' BY <1>3, <2>1, <2>2, <2>3, <2>4 DEF TypeOK, FaultsOK
    <2>7. Provider(c)' = Provider(c) /\ result' = result /\ report' = report
      BY <2>1 DEF Provider
    <2>8. Manifest(Provider(c))' = Manifest(Provider(c)) BY <2>7 DEF Manifest
    <2>9. Control(c)' BY <1>2, <2>3, <2>4, <2>5, <2>7, <2>8 DEF Control
    <2>10. Behind(c)' BY <2>3 DEF Behind
    <2> QED BY <2>2, <2>6, <2>9, <2>10
  <1> QED BY <1>4, <1>5

LEMMA ReadStateKeeps ==
    ASSUME TypeOK, NEW c \in Procs, Control(c), ReadState(c)
    PROVE  TypeOK' /\ Control(c)' /\ Behind(c)' /\ UNCHANGED tables
  <1>1. /\ UNCHANGED tables /\ UNCHANGED world
        /\ UNCHANGED <<manifest, index, pending, segment, result, report>>
        /\ pc[c] = "state" /\ pc[c] \in Working
    BY DEF ReadState, Working
  <1>2. /\ DB!TypeOK' /\ \A p \in Providers : LastApplied(p)' = LastApplied(p)
    BY <1>1, TablesStay
  <1>3. pc'[c] = "index" /\ pc' \in [Procs -> Working \union Resting]
    BY DEF TypeOK, ReadState, Goto, Working
  <1>4. PICK p \in Providers : p = Provider(c) BY <1>1, ProviderOf
  <1>5. LastApplied(p) \in Nat BY Typed
  <1>6. last' = [last EXCEPT ![c] = LastApplied(p)] BY <1>4 DEF ReadState
  <1>7. last'[c] = LastApplied(p) /\ last' \in [Procs -> Nat] BY <1>5, <1>6 DEF TypeOK
  <1>8. TypeOK' BY <1>1, <1>2, <1>3, <1>7 DEF TypeOK, world
  <1>9. Provider(c)' = Provider(c) /\ Provider(c)' = p BY <1>1, <1>4 DEF Provider
  <1>10. Manifest(Provider(c))' = Manifest(Provider(c)) BY <1>9 DEF Manifest
  <1>11. Control(c)' BY <1>1, <1>3, <1>9, <1>10 DEF Control
  <1>12. LastApplied(Provider(c))' = LastApplied(p)
    <2>1. LastApplied(Provider(c))' = LastApplied(p)' BY <1>9 DEF LastApplied, DB!LastApplied
    <2> QED BY <1>2, <2>1
  <1>13. Behind(c)' BY <1>3, <1>5, <1>7, <1>12 DEF Behind
  <1> QED BY <1>1, <1>8, <1>11, <1>13

LEMMA SegmentKeeps ==
    ASSUME TypeOK, NEW c \in Procs, Control(c), Behind(c),
           AcceptSegment(c) \/ RejectSegment(c)
    PROVE  TypeOK' /\ Control(c)' /\ Behind(c)' /\ UNCHANGED tables
  <1>1. PICK digest \in Digests :
           /\ SegmentServed(c, digest)
           /\ \/ /\ VerifySegment(c, digest)
                 /\ segment' = [segment EXCEPT ![c] = digest]
                 /\ Goto(c, "apply")
                 /\ UNCHANGED <<tables, published, manifest, last, index, pending,
                                result, report>>
              \/ Failed(c)
    BY DEF AcceptSegment, RejectSegment
  <1>2. pc[c] = "segment" /\ pc[c] \in Working BY <1>1 DEF SegmentServed, Working
  <1>3. FaultsOK' BY <1>1, FaultsStay DEF SegmentServed
  <1>4. CASE Failed(c) BY <1>2, <1>3, <1>4, FailedKeeps
  <1>5. CASE ~Failed(c)
    <2>1. /\ UNCHANGED <<tables, published, manifest, last, index, pending, result, report>>
          /\ VerifySegment(c, digest)
      BY <1>1, <1>5
    <2>2. /\ UNCHANGED tables /\ DB!TypeOK'
          /\ \A p \in Providers : LastApplied(p)' = LastApplied(p)
      BY <2>1, TablesStay
    <2>3. pc'[c] = "apply" /\ pc' \in [Procs -> Working \union Resting]
      BY <1>1, <1>5 DEF TypeOK, Goto, Working
    <2>4. segment' \in [Procs -> Digests \union {None}] /\ segment'[c] = digest
      BY <1>1, <1>5 DEF TypeOK
    <2>5. TypeOK' BY <1>3, <2>1, <2>2, <2>3, <2>4 DEF TypeOK, FaultsOK
    <2>6. /\ Provider(c)' = Provider(c) /\ result' = result /\ report' = report
          /\ manifest' = manifest /\ index' = index /\ pending' = pending
      BY <2>1 DEF Provider
    <2>7. Manifest(Provider(c))' = Manifest(Provider(c)) BY <2>6 DEF Manifest
    <2>8. VerifySegment(c, segment[c])'
      BY <2>1, <2>4, <2>6 DEF VerifySegment, Ref, Version
    <2>9. Control(c)' BY <1>2, <2>3, <2>4, <2>6, <2>7, <2>8 DEF Control
    <2>10. PICK p \in Providers : p = Provider(c) BY <1>2, ProviderOf
    <2>11. LastApplied(Provider(c))' = LastApplied(p)' /\ LastApplied(p)' = LastApplied(p)
      BY <2>2, <2>6, <2>10 DEF LastApplied, DB!LastApplied
    <2>12. NoGap(c) BY <1>2 DEF Behind
    <2>13. NoGap(c)' BY <2>6, <2>10, <2>11, <2>12 DEF NoGap
    <2>14. Behind(c)' BY <2>3, <2>13 DEF Behind
    <2> QED BY <2>2, <2>5, <2>9, <2>14
  <1> QED BY <1>4, <1>5

(* The ways a visit fails, and the ways a process stops. *)
LEMMA FailureKeeps ==
    ASSUME TypeOK, NEW c \in Procs, Control(c),
           FetchFails(c) \/ ApplyFails(c) \/ RecordUpToDateFails(c)
    PROVE  TypeOK' /\ Control(c)' /\ Behind(c)' /\ UNCHANGED tables
  <1>1. Failed(c) /\ pc[c] \in Working
    BY DEF FetchFails, ApplyFails, RecordUpToDateFails, Working
  <1>2. FaultsOK' BY FaultsStay DEF FetchFails, ApplyFails, RecordUpToDateFails
  <1> QED BY <1>1, <1>2, FailedKeeps

LEMMA StoppingKeeps ==
    ASSUME TypeOK, NEW c \in Procs, Overflow(c) \/ Escape(c) \/ Crash(c)
    PROVE  TypeOK' /\ Control(c)' /\ Behind(c)' /\ UNCHANGED tables
  <1>1. Stop(c, "aborted") \/ Stop(c, "idle") BY DEF Overflow, Escape, Crash
  <1>2. FaultsOK' BY FaultsStay DEF Overflow, Escape, Crash, StorageFault
  <1>3. "aborted" \in Resting /\ "idle" \in Resting BY DEF Resting
  <1> QED BY <1>1, <1>2, <1>3, StopKeeps

LEMMA RecordFailedKeeps ==
    ASSUME TypeOK, NEW c \in Procs, Control(c), RecordFailedFails(c)
    PROVE  TypeOK' /\ Control(c)' /\ Behind(c)' /\ UNCHANGED tables
  <1>1. /\ pc[c] = "record" /\ pc[c] \in Working /\ Finish(c, result[c])
        /\ UNCHANGED tables /\ UNCHANGED published
    BY DEF RecordFailedFails, Working
  <1>2. FaultsOK' BY FaultsStay DEF RecordFailedFails
  <1>3. DB!TypeOK' BY <1>1, TablesStay
  <1>4. result[c] \in Result BY <1>1 DEF Control
  <1> QED BY <1>1, <1>2, <1>3, <1>4, FinishKeeps

LEMMA IndexKeeps ==
    ASSUME TypeOK, NEW c \in Procs, Control(c), Behind(c),
           AcceptIndex(c) \/ RejectIndex(c)
    PROVE  TypeOK' /\ Control(c)' /\ Behind(c)' /\ UNCHANGED tables
  <1>1. CASE RejectIndex(c)
    <2>1. PICK q, k : IndexServed(c, q, k) /\ Failed(c) BY <1>1 DEF RejectIndex
    <2>2. pc[c] \in Working BY <2>1 DEF IndexServed, Working
    <2>3. FaultsOK' BY <2>1, FaultsStay DEF IndexServed
    <2> QED BY <2>1, <2>2, <2>3, FailedKeeps
  <1>2. CASE AcceptIndex(c)
    <2>0. PICK q \in Providers :
             \E k \in DOMAIN Publications[q] :
                LET payload == Publications[q][k]
                    chosen == Pending(payload.segments, last[c])
                IN  /\ IndexServed(c, q, k)
                    /\ VerifyIndex(payload, manifest[c], last[c])
                    /\ index' = [index EXCEPT ![c] = payload]
                    /\ pending' = [pending EXCEPT ![c] = chosen]
                    /\ result' = [result EXCEPT ![c] =
                           [result[c] EXCEPT !.index_version = payload.version,
                               !.status = IF chosen = {} THEN "up-to-date" ELSE @]]
                    /\ Goto(c, IF chosen = {} THEN "record" ELSE "segment")
                    /\ UNCHANGED <<tables, published, manifest, last, segment, report>>
      BY <1>2 DEF AcceptIndex
    <2>1. PICK k \in DOMAIN Publications[q] :
             LET payload == Publications[q][k]
                 chosen == Pending(payload.segments, last[c])
             IN  /\ IndexServed(c, q, k)
                 /\ VerifyIndex(payload, manifest[c], last[c])
                 /\ index' = [index EXCEPT ![c] = payload]
                 /\ pending' = [pending EXCEPT ![c] = chosen]
                 /\ result' = [result EXCEPT ![c] =
                        [result[c] EXCEPT !.index_version = payload.version,
                            !.status = IF chosen = {} THEN "up-to-date" ELSE @]]
                 /\ Goto(c, IF chosen = {} THEN "record" ELSE "segment")
                 /\ UNCHANGED <<tables, published, manifest, last, segment, report>>
      BY <2>0
    <2>2. PICK payload \in IndexPayload : payload = Publications[q][k] BY Documents
    <2>3. /\ payload.provider_id = q /\ payload.version \in Versions
          /\ payload.segments \subseteq DOMAIN Files[q]
          /\ payload.segments \in SUBSET Versions
      BY <2>2, Documents
    <2>4. last[c] \in Nat BY DEF TypeOK
    <2>5. PICK chosen \in SUBSET Versions : chosen = Pending(payload.segments, last[c])
      BY <2>3, <2>4, PendingFacts
    <2>6. /\ chosen \subseteq payload.segments
          /\ \A v \in chosen : \A w \in 1..v : w \in chosen \/ w <= last[c]
      BY <2>3, <2>4, <2>5, PendingFacts
    <2>7. /\ pc[c] = "index" /\ pc[c] \in Working
          /\ VerifyIndex(payload, manifest[c], last[c])
          /\ index' = [index EXCEPT ![c] = payload]
          /\ pending' = [pending EXCEPT ![c] = chosen]
          /\ Goto(c, IF chosen = {} THEN "record" ELSE "segment")
          /\ UNCHANGED tables
          /\ UNCHANGED <<published, manifest, last, segment, report>>
      BY <2>1, <2>2, <2>5 DEF IndexServed, Working
    <2>8. result' = [result EXCEPT ![c] =
              [result[c] EXCEPT !.index_version = payload.version,
                  !.status = IF chosen = {} THEN "up-to-date" ELSE @]]
      BY <2>1, <2>2, <2>5
    <2>9. FaultsOK' BY <2>1, FaultsStay DEF IndexServed
    <2>10. /\ DB!TypeOK' /\ \A p \in Providers : LastApplied(p)' = LastApplied(p)
      BY <2>7, TablesStay
    <2>11. result[c] \in Result /\ result[c].provider_id = Provider(c)
           /\ Len(report[c]) < Len(Config)
           /\ manifest[c] = Manifest(Provider(c))
      BY <2>7 DEF Control
    <2>12. q = Provider(c) BY <2>3, <2>7, <2>11 DEF VerifyIndex, Manifest
    <2>13. PICK status \in Statuses :
              status = IF chosen = {} THEN "up-to-date" ELSE result[c].status
      BY <2>11 DEF Result, Statuses
    <2>14. result' = [result EXCEPT ![c] =
              [result[c] EXCEPT !.index_version = payload.version, !.status = status]]
      <3>1. [result[c] EXCEPT !.index_version = payload.version,
                 !.status = IF chosen = {} THEN "up-to-date" ELSE @]
              = [result[c] EXCEPT !.index_version = payload.version, !.status = status]
        BY <2>11, <2>13 DEF Result
      <3> QED BY <2>8, <3>1
    <2>15. /\ result'[c] \in Result /\ result'[c].index_version = payload.version
           /\ result'[c].status = status /\ result'[c].provider_id = Provider(c)
           /\ result' \in [Procs -> Result \union {None}]
      <3>1. PICK found : found =
               [result[c] EXCEPT !.index_version = payload.version, !.status = status]
        OBVIOUS
      <3>2. /\ found \in Result /\ found.index_version = payload.version
            /\ found.status = status /\ found.provider_id = Provider(c)
        BY <2>3, <2>11, <3>1 DEF Result
      <3>3. result' = [result EXCEPT ![c] = found] BY <2>14, <3>1
      <3>4. result'[c] = found /\ result' \in [Procs -> Result \union {None}]
        BY <3>2, <3>3 DEF TypeOK
      <3> QED BY <3>2, <3>4
    <2>16. /\ index'[c] = payload /\ pending'[c] = chosen
           /\ index' \in [Procs -> IndexPayload \union {None}]
           /\ pending' \in [Procs -> SUBSET Versions]
      BY <2>7 DEF TypeOK
    <2>17. /\ pc'[c] = IF chosen = {} THEN "record" ELSE "segment"
           /\ pc' \in [Procs -> Working \union Resting]
      BY <2>7 DEF TypeOK, Goto, Working
    <2>18. TypeOK' BY <2>7, <2>9, <2>10, <2>15, <2>16, <2>17 DEF TypeOK, FaultsOK
    <2>19. Provider(c)' = Provider(c) /\ report' = report /\ manifest' = manifest
      BY <2>7 DEF Provider
    <2>20. Manifest(Provider(c))' = Manifest(Provider(c)) BY <2>19 DEF Manifest
    <2>21. CASE chosen = {}
      <3>1. pc'[c] = "record" /\ status = "up-to-date" BY <2>13, <2>17, <2>21
      <3>2. Control(c)' BY <2>11, <2>15, <2>19, <3>1 DEF Control
      <3>3. Behind(c)' BY <3>1 DEF Behind
      <3> QED BY <2>7, <2>18, <3>2, <3>3
    <2>22. CASE chosen # {}
      <3>1. pc'[c] = "segment" BY <2>17, <2>22
      <3>2. Control(c)'
        BY <2>2, <2>3, <2>6, <2>11, <2>12, <2>15, <2>16, <2>19, <2>20, <2>22, <3>1 DEF Control
      <3>3. LastApplied(Provider(c))' = LastApplied(q)'
            /\ LastApplied(q)' = LastApplied(q) /\ LastApplied(q) \in Nat
        BY <2>10, <2>12, <2>19, Typed DEF LastApplied, DB!LastApplied
      <3>4. last[c] <= LastApplied(q) BY <2>7, <2>12 DEF Behind
      <3>5. ASSUME NEW v \in chosen, NEW w \in 1..v, w \notin chosen
            PROVE  w <= LastApplied(q)
        <4>1. w <= last[c] BY <2>6, <3>5
        <4>2. w \in Int OBVIOUS
        <4> QED BY <2>4, <3>3, <3>4, <4>1, <4>2
      <3>6. NoGap(c)' BY <2>16, <3>3, <3>5 DEF NoGap
      <3>7. Behind(c)' BY <3>1, <3>6 DEF Behind
      <3> QED BY <2>7, <2>18, <3>2, <3>7
    <2> QED BY <2>21, <2>22
  <1> QED BY <1>1, <1>2

LEMMA RecordKeeps ==
    ASSUME TypeOK, AuditIsPrefix, NEW c \in Procs, Control(c), Record(c)
    PROVE  /\ TypeOK' /\ Control(c)' /\ Behind(c)' /\ AuditIsPrefix'
           /\ UNCHANGED <<catalog_items, applied_segments>>
           /\ \A p \in Providers : LastApplied(p)' = LastApplied(p)
  <1>1. /\ pc[c] = "record" /\ pc[c] \in Working /\ Finish(c, result[c])
        /\ DB!RecordCrawlResult(Provider(c), result[c].status, result[c].index_version)
        /\ UNCHANGED world
    BY DEF Record, Working
  <1>2. result[c] \in Result BY <1>1 DEF Control
  <1>3. /\ result[c].status \in Statuses
        /\ result[c].index_version \in Versions \union {None}
    BY <1>2 DEF Result
  <1>4. Provider(c) \in Providers BY <1>1, ProviderOf
  <1>5. /\ DB!TypeOK' /\ UNCHANGED <<catalog_items, applied_segments>>
        /\ \A q \in Providers : LastApplied(q)' = LastApplied(q)
    BY <1>1, <1>3, <1>4, RecordCrawlResultFacts
  <1>6. FaultsOK' /\ UNCHANGED published BY <1>1 DEF TypeOK, FaultsOK, world
  <1>7. TypeOK' /\ Control(c)' /\ Behind(c)' BY <1>1, <1>2, <1>5, <1>6, FinishKeeps
  <1>8. AuditIsPrefix' BY <1>5 DEF AuditIsPrefix
  <1> QED BY <1>5, <1>7, <1>8

---------------------------------------------------------------------------
(* Applying a segment: it is the one after the marker, or one already      *)
(* covered by it.                                                          *)

Prefix(files, n) == {[segment_version |-> v, digest |-> files[v]] : v \in 1..n}

LEMMA PrefixGrows ==
    ASSUME NEW files, NEW n \in Nat, NEW v \in 1..(n + 1)
    PROVE  UpsertAudit(Prefix(files, n), v, files[v])
             = Prefix(files, IF v > n THEN v ELSE n)
  <1> DEFINE row(w) == [segment_version |-> w, digest |-> files[w]]
             after == UpsertAudit(Prefix(files, n), v, files[v])
             m == IF v > n THEN v ELSE n
  <1>1. \A w : row(w).segment_version = w OBVIOUS
  <1>2. Prefix(files, n) = {row(w) : w \in 1..n} /\ Prefix(files, m) = {row(w) : w \in 1..m}
    BY DEF Prefix
  <1>3. after = {r \in Prefix(files, n) : r.segment_version # v} \union {row(v)}
    BY DEF UpsertAudit
  <1>4. 1..m = (1..n) \union {v} BY DEF m
  <1> HIDE DEF row, after, m
  <1>5. \A w \in 1..n : w = v \/ row(w) \in after BY <1>1, <1>2, <1>3
  <1>6. row(v) \in after BY <1>3
  <1>7. Prefix(files, m) \subseteq after BY <1>2, <1>4, <1>5, <1>6
  <1>8. after \subseteq Prefix(files, m) BY <1>2, <1>3, <1>4
  <1>9. after = Prefix(files, m) BY <1>7, <1>8
  <1> QED BY <1>9 DEF after, m

LEMMA ApplyFacts ==
    ASSUME TypeOK, NEW c \in Procs, Control(c), Behind(c), Apply(c), NEW p, p = Provider(c)
    PROVE  /\ p \in Providers
           /\ Version(c) \in pending[c]
           /\ Version(c) \in 1..(LastApplied(p) + 1)
           /\ Content[segment[c]] \in Segment
           /\ Content[segment[c]].version = Version(c)
           /\ DB!TypeOK'
           /\ catalog_items'[p] = Merge(catalog_items[p], Content[segment[c]])
           /\ segment[c] = Files[p][Version(c)]
           /\ applied_segments'[p]
                = UpsertAudit(applied_segments[p], Version(c), Files[p][Version(c)])
           /\ LastApplied(p)' = IF Version(c) > LastApplied(p) THEN Version(c)
                                ELSE LastApplied(p)
           /\ \A q \in Providers \ {p} :
                 /\ catalog_items'[q] = catalog_items[q]
                 /\ applied_segments'[q] = applied_segments[q]
                 /\ LastApplied(q)' = LastApplied(q)
  <1>1. /\ pc[c] = "apply" /\ pc[c] \in Working
        /\ DB!ApplySegment(p, Content[segment[c]], Ref(c), index[c].version)
    BY DEF Apply, Working
  <1>2. p \in Providers BY <1>1, ProviderOf
  <1>3. /\ index[c] \in IndexPayload /\ index[c].provider_id = p
        /\ pending[c] # {} /\ pending[c] \subseteq index[c].segments
        /\ index[c].segments \subseteq DOMAIN Files[p]
        /\ VerifySegment(c, segment[c]) /\ segment[c] \in Digests
    BY <1>1 DEF Control
  <1>4. pending[c] \in SUBSET Versions BY DEF TypeOK
  <1>5. PICK v \in pending[c] : v = Version(c) /\ \A w \in pending[c] : v <= w
    BY <1>3, <1>4, EarliestFacts DEF Version
  <1>6. v \in Nat \ {0} /\ pending[c] \subseteq Nat BY <1>4 DEF Versions
  <1>7. PICK n \in Nat : n = LastApplied(p) BY <1>2, Typed
  <1>8. v <= n + 1
    <2>1. \A w \in 1..v : w \in pending[c] \/ w <= n BY <1>1, <1>5, <1>7 DEF Behind, NoGap
    <2>2. CASE ~(v <= n + 1)
      <3>1. n + 1 \in 1..v /\ ~(n + 1 <= n) BY <1>6, <2>2
      <3>2. n + 1 \in pending[c] BY <2>1, <3>1
      <3> QED BY <1>5, <2>2, <3>2
    <2> QED BY <2>2
  <1>9. v \in 1..(n + 1) BY <1>6, <1>8
  <1>10. /\ segment[c] = Files[p][v] /\ Ref(c) = Files[p][v] /\ Files[p][v] \in Digests
         /\ Content[segment[c]] # None /\ Content[segment[c]].version = v
    BY <1>3, <1>5 DEF VerifySegment, IsSegment, Ref
  <1>11. PICK s \in Segment : s = Content[segment[c]] /\ s.version = v
    BY <1>3, <1>10, ProvidersAssumption
  <1>12. index[c].version \in Versions BY <1>3 DEF IndexPayload
  <1>13. DB!ApplySegment(p, s, Files[p][v], index[c].version) BY <1>1, <1>10, <1>11
  <1>14. /\ DB!TypeOK'
         /\ catalog_items'[p] = Merge(catalog_items[p], s)
         /\ applied_segments'[p] = UpsertAudit(applied_segments[p], s.version, Files[p][v])
         /\ LastApplied(p)' = IF s.version > LastApplied(p) THEN s.version ELSE LastApplied(p)
         /\ \A q \in Providers \ {p} :
               /\ catalog_items'[q] = catalog_items[q]
               /\ applied_segments'[q] = applied_segments[q]
               /\ LastApplied(q)' = LastApplied(q)
    BY <1>2, <1>10, <1>12, <1>13, ApplySegmentFacts
  <1> QED BY <1>2, <1>5, <1>7, <1>9, <1>10, <1>11, <1>14

LEMMA AuditStep ==
    ASSUME TypeOK, AuditIsPrefix, NEW c \in Procs, Control(c), Behind(c), Apply(c)
    PROVE  AuditIsPrefix'
  <1>1. PICK p : p = Provider(c) OBVIOUS
  <1>2. PICK v : v = Version(c) OBVIOUS
  <1>3. p \in Providers BY <1>1, ApplyFacts
  <1>4. PICK n \in Nat : n = LastApplied(p) BY <1>3, Typed
  <1>5. /\ v \in 1..(n + 1)
        /\ applied_segments'[p] = UpsertAudit(applied_segments[p], v, Files[p][v])
        /\ LastApplied(p)' = IF v > n THEN v ELSE n
        /\ \A q \in Providers \ {p} :
              /\ applied_segments'[q] = applied_segments[q]
              /\ LastApplied(q)' = LastApplied(q)
    BY <1>1, <1>2, <1>4, ApplyFacts
  <1>6. \A q \in Providers : applied_segments[q] = Prefix(Files[q], LastApplied(q))
    BY DEF AuditIsPrefix, Prefix
  <1>7. applied_segments'[p] = Prefix(Files[p], LastApplied(p)')
    BY <1>3, <1>4, <1>5, <1>6, PrefixGrows
  <1>8. \A q \in Providers : applied_segments'[q] = Prefix(Files[q], LastApplied(q)')
    BY <1>5, <1>6, <1>7
  <1> QED BY <1>8 DEF AuditIsPrefix, Prefix

LEMMA ApplyKeeps ==
    ASSUME TypeOK, NEW c \in Procs, Control(c), Behind(c), Apply(c)
    PROVE  /\ TypeOK' /\ Control(c)' /\ Behind(c)'
           /\ \A q \in Providers : LastApplied(q)' \in {LastApplied(q), LastApplied(q) + 1}
  <1>1. PICK p : p = Provider(c) OBVIOUS
  <1>2. PICK v : v = Version(c) OBVIOUS
  <1>3. p \in Providers BY <1>1, ApplyFacts
  <1>4. PICK n \in Nat : n = LastApplied(p) BY <1>3, Typed
  <1>5. /\ v \in 1..(n + 1) /\ v \in pending[c]
        /\ DB!TypeOK'
        /\ LastApplied(p)' = IF v > n THEN v ELSE n
        /\ \A q \in Providers \ {p} : LastApplied(q)' = LastApplied(q)
    BY <1>1, <1>2, <1>4, ApplyFacts
  <1>6. PICK m \in Nat : m = LastApplied(p)' /\ m \in {n, n + 1} /\ n <= m /\ v <= m
    BY <1>4, <1>5
  <1>7. \A q \in Providers : LastApplied(q)' \in {LastApplied(q), LastApplied(q) + 1}
    BY <1>4, <1>5, <1>6
  <1>8. /\ pc[c] = "apply" /\ pc[c] \in Working /\ UNCHANGED world
        /\ result[c] \in Result /\ result[c].provider_id = p
        /\ Len(report[c]) < Len(Config)
    BY <1>1 DEF Apply, Working, Control
  <1>9. FaultsOK' /\ published' = published BY <1>8 DEF TypeOK, FaultsOK, world
  <1>10. PICK applied : applied = [result[c] EXCEPT !.segments_applied = @ \union {v}]
    OBVIOUS
  <1>11. /\ applied \in Result /\ applied.provider_id = p
         /\ applied.index_version = result[c].index_version
    <2>1. v \in Versions BY <1>5 DEF TypeOK
    <2> QED BY <1>8, <1>10, <2>1 DEF Result
  <1>12. IF pending[c] = {v}
         THEN Finish(c, applied)
         ELSE /\ result' = [result EXCEPT ![c] = applied]
              /\ pending' = [pending EXCEPT ![c] = @ \ {v}]
              /\ segment' = [segment EXCEPT ![c] = None]
              /\ Goto(c, "segment")
              /\ UNCHANGED <<manifest, last, index, report>>
    BY <1>2, <1>10 DEF Apply
  <1>13. CASE pending[c] = {v}
    <2>1. Finish(c, applied) BY <1>12, <1>13
    <2> QED BY <1>5, <1>7, <1>8, <1>9, <1>11, <2>1, FinishKeeps
  <1>14. CASE pending[c] # {v}
    <2>1. /\ result' = [result EXCEPT ![c] = applied]
          /\ pending' = [pending EXCEPT ![c] = pending[c] \ {v}]
          /\ segment' = [segment EXCEPT ![c] = None]
          /\ Goto(c, "segment")
          /\ UNCHANGED <<manifest, last, index, report>>
      BY <1>12, <1>14
    <2>2. pc'[c] = "segment" /\ pc' \in [Procs -> Working \union Resting]
      BY <2>1 DEF TypeOK, Goto, Working
    <2>3. /\ result'[c] = applied /\ result' \in [Procs -> Result \union {None}]
          /\ pending'[c] = pending[c] \ {v} /\ pending' \in [Procs -> SUBSET Versions]
          /\ segment' \in [Procs -> Digests \union {None}]
      BY <1>11, <2>1 DEF TypeOK
    <2>4. TypeOK' BY <1>5, <1>9, <2>1, <2>2, <2>3 DEF TypeOK, FaultsOK
    <2>5. Provider(c)' = p /\ index' = index /\ report' = report /\ manifest' = manifest
      BY <1>1, <2>1 DEF Provider
    <2>6. Manifest(Provider(c))' = Manifest(p) BY <2>5 DEF Manifest
    <2>7. /\ manifest[c] = Manifest(p)
          /\ index[c] \in IndexPayload /\ index[c].provider_id = p
          /\ index[c].segments \subseteq DOMAIN Files[p]
          /\ pending[c] \subseteq index[c].segments
          /\ result[c].index_version = index[c].version
      BY <1>1, <1>8 DEF Control
    <2>8. pending'[c] # {} /\ pending'[c] \subseteq index'[c].segments
      BY <1>5, <1>14, <2>3, <2>5, <2>7
    <2>9. Control(c)'
      BY <1>8, <1>11, <2>2, <2>3, <2>5, <2>6, <2>7, <2>8 DEF Control
    <2>10. LastApplied(Provider(c))' = m
      BY <1>6, <2>5 DEF LastApplied, DB!LastApplied
    <2>11. \A u \in pending[c] : \A w \in 1..u : w \in pending[c] \/ w <= n
      BY <1>1, <1>4, <1>8 DEF Behind, NoGap
    <2>12. ASSUME NEW u \in pending'[c], NEW w \in 1..u, w \notin pending'[c]
           PROVE  w <= m
      <3>1. u \in pending[c] BY <2>3, <2>12
      <3>2. CASE w = v BY <1>6, <3>2
      <3>3. CASE w # v
        <4>1. w \notin pending[c] BY <2>3, <2>12, <3>3
        <4>2. w <= n BY <2>11, <3>1, <4>1
        <4> QED BY <1>6, <4>2
      <3> QED BY <3>2, <3>3
    <2>13. NoGap(c)' BY <2>10, <2>12 DEF NoGap
    <2>14. Behind(c)' BY <2>2, <2>13 DEF Behind
    <2> QED BY <1>7, <2>4, <2>9, <2>14
  <1> QED BY <1>13, <1>14

---------------------------------------------------------------------------
(* The invariant. *)

LEMMA InitInv == Init => Inv
  <1> SUFFICES ASSUME Init PROVE Inv OBVIOUS
  <1>1. /\ catalog_items = [p \in Providers |-> NoRows]
        /\ provider_state = [p \in Providers |-> None]
        /\ applied_segments = [p \in Providers |-> {}]
    BY DEF Init, DB!Init, DB!NoRows, NoRows
  <1>2. /\ catalog_items \in [Providers -> Rows]
        /\ provider_state \in [Providers -> States]
        /\ applied_segments \in [Providers -> SUBSET AuditRow]
    BY <1>1 DEF NoRows, Rows, States
  <1>3. DB!TypeOK BY <1>2, SameOperators
  <1>4. published \in [Providers -> Nat] /\ \A p \in Providers : published[p] <= Len(Publications[p])
    <2>1. \A p \in Providers : Len(Publications[p]) \in Nat
      BY ProvidersAssumption, LenProperties
    <2> QED BY <2>1 DEF Init
  <1>5. report \in [Procs -> Seq(Result)]
    <2>1. <<>> \in Seq(Result) BY EmptySeq
    <2> QED BY <2>1 DEF Init
  <1>6. faults \in 0..MaxFaults BY BoundsAssumption DEF Init
  <1>7. /\ pc \in [Procs -> Working \union Resting]
        /\ manifest \in [Procs -> {Manifest(p) : p \in Providers} \union {None}]
        /\ last \in [Procs -> Nat]
        /\ index \in [Procs -> IndexPayload \union {None}]
        /\ pending \in [Procs -> SUBSET Versions]
        /\ segment \in [Procs -> Digests \union {None}]
        /\ result \in [Procs -> Result \union {None}]
    BY DEF Init, Resting
  <1>8. TypeOK BY <1>3, <1>4, <1>5, <1>6, <1>7 DEF TypeOK
  <1>9. \A p \in Providers : LastApplied(p) = 0 BY <1>1, SameOperators DEF Applied
  <1>10. AuditIsPrefix
    <2>1. 1..0 = {} OBVIOUS
    <2>2. \A p \in Providers : 1..LastApplied(p) = {} BY <1>9, <2>1
    <2> QED BY <1>1, <2>2 DEF AuditIsPrefix
  <1>11. \A c \in Procs : pc[c] = "idle" BY DEF Init
  <1>12. \A c \in Procs : Control(c) /\ Behind(c) BY <1>11 DEF Control, Behind, Working
  <1> QED BY <1>8, <1>10, <1>12 DEF Inv

(* What one step does to the step's process, and to the markers. *)
LEMMA StepKeeps ==
    ASSUME TypeOK, AuditIsPrefix, NEW c \in Procs, Control(c), Behind(c),
           Step(c) \/ Crash(c)
    PROVE  /\ TypeOK' /\ Control(c)' /\ Behind(c)' /\ AuditIsPrefix'
           /\ \A q \in Providers : LastApplied(q)' \in {LastApplied(q), LastApplied(q) + 1}
  <1>1. CASE Apply(c) BY <1>1, ApplyKeeps, AuditStep
  <1>2. CASE Record(c) BY <1>2, RecordKeeps
  <1>3. CASE ~Apply(c) /\ ~Record(c)
    <2>1. TypeOK' /\ Control(c)' /\ Behind(c)' /\ UNCHANGED tables
      <3>1. CASE Start(c) BY <3>1, StartKeeps
      <3>2. CASE AcceptManifest(c) \/ RejectManifest(c) BY <3>2, ManifestKeeps
      <3>3. CASE ReadState(c) BY <3>3, ReadStateKeeps
      <3>4. CASE AcceptIndex(c) \/ RejectIndex(c) BY <3>4, IndexKeeps
      <3>5. CASE AcceptSegment(c) \/ RejectSegment(c) BY <3>5, SegmentKeeps
      <3>6. CASE FetchFails(c) \/ ApplyFails(c) \/ RecordUpToDateFails(c)
        BY <3>6, FailureKeeps
      <3>7. CASE RecordFailedFails(c) BY <3>7, RecordFailedKeeps
      <3>8. CASE Overflow(c) \/ Escape(c) \/ Crash(c) BY <3>8, StoppingKeeps
      <3> QED BY <1>3, <3>1, <3>2, <3>3, <3>4, <3>5, <3>6, <3>7, <3>8 DEF Step
    <2> QED BY <2>1, TablesStay
  <1> QED BY <1>1, <1>2, <1>3

(* The markers never move backwards, so the other processes keep their facts. *)
LEMMA NextInv ==
    ASSUME Inv, Next
    PROVE  Inv' /\ \A q \in Providers : LastApplied(q)' \in {LastApplied(q), LastApplied(q) + 1}
  <1>1. TypeOK /\ AuditIsPrefix /\ \A c \in Procs : Control(c) /\ Behind(c) BY DEF Inv
  <1>2. ASSUME NEW p \in Providers, Publish(p)
        PROVE  Inv' /\ \A q \in Providers : LastApplied(q)' = LastApplied(q)
    <2>1. UNCHANGED <<tables, faults, pc, crawl, report>> /\ published[p] < Len(Publications[p])
          /\ published' = [published EXCEPT ![p] = @ + 1]
      BY <1>2 DEF Publish
    <2>2. /\ DB!TypeOK' /\ AuditIsPrefix'
          /\ \A q \in Providers : LastApplied(q)' = LastApplied(q)
      BY <1>1, <2>1, TablesStay
    <2>3. /\ published' \in [Providers -> Nat]
          /\ \A q \in Providers : published'[q] <= Len(Publications[q])
      <3>1. \A q \in Providers : Len(Publications[q]) \in Nat
        BY ProvidersAssumption, LenProperties
      <3> QED BY <1>1, <2>1, <3>1 DEF TypeOK
    <2>4. TypeOK' BY <1>1, <2>1, <2>2, <2>3 DEF TypeOK, crawl
    <2>5. \A c \in Procs : Untouched(c) BY <2>1 DEF Untouched, crawl
    <2>6. \A q \in Providers : LastApplied(q)' \in Nat /\ LastApplied(q)' >= LastApplied(q)
      BY <1>1, <2>2, Typed
    <2>7. \A c \in Procs : Control(c)' /\ Behind(c)' BY <1>1, <2>5, <2>6, UntouchedKeeps
    <2> QED BY <2>2, <2>4, <2>7 DEF Inv
  <1>3. ASSUME NEW c \in Procs, Step(c) \/ Crash(c)
        PROVE  Inv' /\ \A q \in Providers : LastApplied(q)' \in {LastApplied(q), LastApplied(q) + 1}
    <2>1. /\ TypeOK' /\ Control(c)' /\ Behind(c)' /\ AuditIsPrefix'
          /\ \A q \in Providers : LastApplied(q)' \in {LastApplied(q), LastApplied(q) + 1}
      BY <1>1, <1>3, StepKeeps
    <2>2. \A q \in Providers : LastApplied(q) \in Nat BY <1>1, Typed
    <2>3. \A q \in Providers : LastApplied(q)' \in Nat /\ LastApplied(q)' >= LastApplied(q)
      BY <2>1, <2>2
    <2>4. ASSUME NEW d \in Procs \ {c} PROVE Control(d)' /\ Behind(d)'
      <3>1. Untouched(d) BY <1>1, <1>3, StepTouchesOne
      <3> QED BY <1>1, <2>3, <3>1, UntouchedKeeps
    <2>5. \A d \in Procs : Control(d)' /\ Behind(d)' BY <2>1, <2>4
    <2> QED BY <2>1, <2>5 DEF Inv
  <1>4. \A q \in Providers : LastApplied(q) \in Nat BY <1>1, Typed
  <1> QED BY <1>2, <1>3 DEF Next

LEMMA StutterInv ==
    ASSUME Inv, UNCHANGED vars
    PROVE  Inv' /\ \A q \in Providers : LastApplied(q)' = LastApplied(q)
  <1>1. TypeOK /\ AuditIsPrefix /\ \A c \in Procs : Control(c) /\ Behind(c) BY DEF Inv
  <1>2. UNCHANGED <<tables, world, pc, crawl, report>> BY DEF vars
  <1>3. /\ DB!TypeOK' /\ AuditIsPrefix'
        /\ \A q \in Providers : LastApplied(q)' = LastApplied(q)
    BY <1>1, <1>2, TablesStay
  <1>4. TypeOK' BY <1>1, <1>2, <1>3 DEF TypeOK, crawl, world
  <1>5. \A c \in Procs : Untouched(c) BY <1>2 DEF Untouched, crawl
  <1>6. \A q \in Providers : LastApplied(q)' \in Nat /\ LastApplied(q)' >= LastApplied(q)
    BY <1>1, <1>3, Typed
  <1>7. \A c \in Procs : Control(c)' /\ Behind(c)' BY <1>1, <1>5, <1>6, UntouchedKeeps
  <1> QED BY <1>3, <1>4, <1>7 DEF Inv

---------------------------------------------------------------------------
(* The inductive invariant of Crawler: types, the audit trail, where each   *)
(* process is and what it read.                                             *)
THEOREM CrawlerInvariant == Spec => []Inv
  <1>1. Inv /\ [Next]_vars => Inv' BY NextInv, StutterInv
  <1> QED BY <1>1, InitInv, PTL DEF Spec

(* Every variable of crawler.py's run() and of the database keeps its type, *)
(* for any number of processes, providers and publications.                 *)
THEOREM CrawlerTypeOK == Spec => []TypeOK
  <1>1. Inv => TypeOK BY DEF Inv
  <1> QED BY <1>1, CrawlerInvariant, PTL

(* The audit trail of each provider is exactly segments 1 up to its marker, *)
(* with the digests of its own files, however many crawler processes share  *)
(* the database, whatever the hosts serve and wherever a process dies.      *)
THEOREM CrawlerAuditIsPrefix == Spec => []AuditIsPrefix
  <1>1. Inv => AuditIsPrefix BY DEF Inv
  <1> QED BY <1>1, CrawlerInvariant, PTL

(* No step rewinds a marker or makes it skip a version.                     *)
THEOREM CrawlerMarkerMovesByOne == Spec => MarkerMovesByOne
  <1>1. Inv /\ [Next]_vars =>
           [\A p \in Providers : LastApplied(p)' \in {LastApplied(p), LastApplied(p) + 1}]_vars
    BY NextInv
  <1> QED BY <1>1, CrawlerInvariant, PTL DEF Spec, MarkerMovesByOne

---------------------------------------------------------------------------
(* Composition: to the store, a crawler is one of the callers Catalog       *)
(* allows for.                                                              *)

LEMMA ApplyCalls ==
    ASSUME TypeOK, NEW c \in Procs, Control(c), Apply(c)
    PROVE  DB!Next
  <1>1. pc[c] = "apply" /\ pc[c] \in Working BY DEF Apply, Working
  <1>2. PICK p \in Providers : p = Provider(c) BY <1>1, ProviderOf
  <1>3. PICK d \in Digests : d = segment[c] /\ d = Ref(c) /\ Content[d] # None
    BY <1>1 DEF Control, VerifySegment, IsSegment
  <1>4. PICK iv \in Versions : iv = index[c].version
    BY <1>1 DEF Control, IndexPayload
  <1>5. PICK s \in {Content[e] : e \in Digests} \ {None} : s = Content[d] BY <1>3
  <1>6. DB!ApplySegment(p, s, d, iv) BY <1>2, <1>3, <1>4, <1>5 DEF Apply
  <1> QED BY <1>6 DEF DB!Next

LEMMA RecordCalls ==
    ASSUME TypeOK, NEW c \in Procs, Control(c), Record(c)
    PROVE  DB!Next
  <1>1. pc[c] = "record" /\ pc[c] \in Working BY DEF Record, Working
  <1>2. PICK p \in Providers : p = Provider(c) BY <1>1, ProviderOf
  <1>3. PICK status \in Statuses, iv \in Versions \union {None} :
           status = result[c].status /\ iv = result[c].index_version
    BY <1>1 DEF Control, Result
  <1>4. DB!RecordCrawlResult(p, status, iv) BY <1>2, <1>3 DEF Record
  <1>5. status \in DB!Statuses BY DEF DB!Statuses, Statuses
  <1> QED BY <1>4, <1>5 DEF DB!Next

(* Apart from its two calls a process leaves the tables alone. *)
LEMMA StepCalls ==
    ASSUME TypeOK, NEW c \in Procs, Control(c), Step(c) \/ Crash(c)
    PROVE  DB!Next \/ UNCHANGED tables
  <1>1. CASE Apply(c) BY <1>1, ApplyCalls
  <1>2. CASE Record(c) BY <1>2, RecordCalls
  <1>3. CASE Start(c) \/ AcceptManifest(c) \/ ReadState(c) \/ AcceptIndex(c) \/ AcceptSegment(c)
    BY <1>3 DEF Start, AcceptManifest, ReadState, AcceptIndex, AcceptSegment
  <1>4. CASE RejectManifest(c) \/ RejectIndex(c) \/ RejectSegment(c) \/ FetchFails(c)
             \/ ApplyFails(c) \/ RecordUpToDateFails(c) \/ RecordFailedFails(c)
    BY <1>4 DEF RejectManifest, RejectIndex, RejectSegment, FetchFails, ApplyFails,
                RecordUpToDateFails, RecordFailedFails, Failed
  <1>5. CASE Overflow(c) \/ Escape(c) \/ Crash(c)
    BY <1>5 DEF Overflow, Escape, Crash, Stop
  <1> QED BY <1>1, <1>2, <1>3, <1>4, <1>5 DEF Step

(* The crawlers keep to what Catalog allows its callers: every change they  *)
(* make to the three tables is one apply_segment of a segment some bytes    *)
(* parse to, or one record_crawl_result, with arguments in range.  So the   *)
(* store that implements Catalog may stand in for the one assumed here.     *)
THEOREM CrawlerUsesCatalog == Spec => DB!Spec
  <1>1. Init => DB!Init BY DEF Init
  <1>2. Inv /\ [Next]_vars => [DB!Next]_(DB!tables)
    <2> SUFFICES ASSUME Inv, [Next]_vars PROVE DB!Next \/ UNCHANGED tables
      BY DEF tables, DB!tables
    <2>1. TypeOK /\ \A c \in Procs : Control(c) BY DEF Inv
    <2>2. ASSUME NEW p \in Providers, Publish(p) PROVE UNCHANGED tables
      BY <2>2 DEF Publish
    <2>3. UNCHANGED vars => UNCHANGED tables BY DEF vars
    <2> QED BY <2>1, <2>2, <2>3, StepCalls DEF Next
  <1> QED BY <1>1, <1>2, CrawlerInvariant, PTL DEF Spec, DB!Spec
=============================================================================
