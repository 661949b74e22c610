------------------------- MODULE CrawlerDataProofs -------------------------
(***************************************************************************)
(* What the rows of the catalog and the report of a crawl are worth.  With *)
(* any number of processes each row comes from a segment of its own        *)
(* provider, and what a report counts is in the database; with one process *)
(* the rows of a provider are its inventory at the marker, and Crawler     *)
(* implements Replica.                                                     *)
(***************************************************************************)
EXTENDS CrawlerProofs

(* Apply is the only step that writes rows or moves a marker. *)
LEMMA OnlyApplyWrites ==
    ASSUME Inv, [Next]_vars, \A c \in Procs : ~Apply(c)
    PROVE  /\ catalog_items' = catalog_items
           /\ \A p \in Providers : LastApplied(p)' = LastApplied(p)
  <1>1. TypeOK /\ AuditIsPrefix /\ \A c \in Procs : Control(c) /\ Behind(c) BY DEF Inv
  <1>2. ASSUME NEW c \in Procs, Record(c)
        PROVE  /\ catalog_items' = catalog_items
               /\ \A p \in Providers : LastApplied(p)' = LastApplied(p)
    BY <1>1, <1>2, RecordKeeps
  <1>3. ASSUME NEW c \in Procs, Step(c) \/ Crash(c), ~Record(c)
        PROVE  UNCHANGED tables
    <2>1. CASE Start(c) \/ ReadState(c) BY <2>1 DEF Start, ReadState
    <2>2. CASE AcceptManifest(c) \/ AcceptIndex(c) \/ AcceptSegment(c)
      BY <2>2 DEF AcceptManifest, AcceptIndex, AcceptSegment
    <2>3. CASE RejectManifest(c) \/ RejectIndex(c) \/ RejectSegment(c) \/ FetchFails(c)
      BY <2>3 DEF RejectManifest, RejectIndex, RejectSegment, FetchFails, Failed
    <2>4. CASE ApplyFails(c) \/ RecordUpToDateFails(c) \/ RecordFailedFails(c)
      BY <2>4 DEF ApplyFails, RecordUpToDateFails, RecordFailedFails, Failed
    <2>5. CASE Overflow(c) \/ Escape(c) \/ Crash(c)
      BY <2>5 DEF Overflow, Escape, Crash, Stop
    <2> QED BY <1>3, <2>1, <2>2, <2>3, <2>4, <2>5 DEF Step
  <1>4. ASSUME NEW p \in Providers, Publish(p) PROVE UNCHANGED tables
    BY <1>4 DEF Publish
  <1>5. UNCHANGED vars => UNCHANGED tables BY DEF vars
  <1>6. UNCHANGED tables =>
           /\ catalog_items' = catalog_items
           /\ \A p \in Providers : LastApplied(p)' = LastApplied(p)
    BY <1>1, TablesStay DEF tables
  <1> QED BY <1>2, <1>3, <1>4, <1>5, <1>6 DEF Next

---------------------------------------------------------------------------
(* Whose rows they are. *)

Genuine(p, i, row) ==
    row # None =>
        /\ row.source_version \in 1..LastApplied(p)
        /\ \E k \in DOMAIN Content[Files[p][row.source_version]].upserts :
              Content[Files[p][row.source_version]].upserts[k]
                  = [id |-> i, payload |-> row.payload]

LEMMA GenuineStep ==
    ASSUME Inv, RowsAreGenuine, NEW c \in Procs, Apply(c)
    PROVE  RowsAreGenuine'
  <1>1. TypeOK /\ Control(c) /\ Behind(c) BY DEF Inv
  <1>2. PICK p : p = Provider(c) OBVIOUS
  <1>3. PICK v : v = Version(c) OBVIOUS
  <1>4. p \in Providers BY <1>1, <1>2, ApplyFacts
  <1>5. PICK s \in Segment : s = Content[segment[c]] BY <1>1, <1>2, ApplyFacts
  <1>6. PICK n \in Nat : n = LastApplied(p) BY <1>1, <1>4, Typed
  <1>7. /\ v \in 1..(n + 1) /\ s.version = v
        /\ s = Content[Files[p][v]]
        /\ catalog_items'[p] = Merge(catalog_items[p], s)
        /\ LastApplied(p)' = IF v > n THEN v ELSE n
        /\ \A q \in Providers \ {p} :
              catalog_items'[q] = catalog_items[q] /\ LastApplied(q)' = LastApplied(q)
    BY <1>1, <1>2, <1>3, <1>5, <1>6, ApplyFacts
  <1>8. PICK m \in Nat : m = LastApplied(p)' /\ n <= m /\ v <= m BY <1>7
  <1>9. catalog_items[p] \in Rows BY <1>1, <1>4, Typed
  <1>10. \A q \in Providers, i \in Items : Genuine(q, i, catalog_items[q][i])
    BY DEF RowsAreGenuine, Genuine
  <1>11. ASSUME NEW i \in Items, NEW row, row = catalog_items'[p][i], row # None
         PROVE  /\ row.source_version \in 1..m
                /\ \E k \in DOMAIN Content[Files[p][row.source_version]].upserts :
                      Content[Files[p][row.source_version]].upserts[k]
                          = [id |-> i, payload |-> row.payload]
    <2>1. CASE row = catalog_items[p][i]
      <3>1. Genuine(p, i, row) BY <1>4, <1>10, <2>1
      <3>2. 1..n \subseteq 1..m BY <1>8
      <3> QED BY <1>6, <1>11, <3>1, <3>2 DEF Genuine
    <2>2. CASE row # catalog_items[p][i]
      <3>1. PICK k \in 1..Len(s.upserts) :
               /\ s.upserts[k].id = i
               /\ row = [payload |-> s.upserts[k].payload, source_version |-> s.version]
        <4>1. row = Merge(catalog_items[p], s)[i] BY <1>7, <1>11
        <4>2. Merge(catalog_items[p], s)[i] # None BY <1>11, <4>1
        <4>3. \/ Merge(catalog_items[p], s)[i] = catalog_items[p][i]
              \/ \E k \in 1..Len(s.upserts) :
                    /\ s.upserts[k].id = i
                    /\ Merge(catalog_items[p], s)[i]
                          = [payload |-> s.upserts[k].payload, source_version |-> s.version]
          BY <1>9, <4>2, MergedRow
        <4> QED BY <2>2, <4>1, <4>3
      <3>2. s.upserts \in Seq([id : Items, payload : Payloads]) BY DEF Segment
      <3>3. s.upserts[k] \in [id : Items, payload : Payloads] BY <3>1, <3>2, ElementOfSeq
      <3>4. s.upserts[k] = [id |-> i, payload |-> row.payload] BY <3>1, <3>3
      <3>5. k \in DOMAIN s.upserts BY <3>1, <3>2, LenProperties
      <3>6. row.source_version = v /\ v \in 1..m BY <1>7, <1>8, <3>1
      <3> QED BY <1>7, <3>4, <3>5, <3>6
    <2> QED BY <2>1, <2>2
  <1>12. ASSUME NEW q \in Providers, NEW i \in Items, NEW row,
                row = catalog_items'[q][i], row # None
         PROVE  /\ row.source_version \in 1..LastApplied(q)'
                /\ \E k \in DOMAIN Content[Files[q][row.source_version]].upserts :
                      Content[Files[q][row.source_version]].upserts[k]
                          = [id |-> i, payload |-> row.payload]
    <2>1. CASE q = p BY <1>8, <1>11, <1>12, <2>1 DEF LastApplied, DB!LastApplied
    <2>2. CASE q # p
      <3>1. row = catalog_items[q][i] /\ LastApplied(q)' = LastApplied(q)
        BY <1>7, <1>12, <2>2
      <3>2. Genuine(q, i, row) BY <1>10, <3>1
      <3> QED BY <1>12, <3>1, <3>2 DEF Genuine
    <2> QED BY <2>1, <2>2
  <1> QED BY <1>12 DEF RowsAreGenuine

LEMMA GenuineElse ==
    ASSUME Inv, RowsAreGenuine, [Next]_vars, \A c \in Procs : ~Apply(c)
    PROVE  RowsAreGenuine'
  <1>1. /\ catalog_items' = catalog_items
        /\ \A p \in Providers : LastApplied(p)' = LastApplied(p)
    BY OnlyApplyWrites
  <1> QED BY <1>1 DEF RowsAreGenuine

(* Each row was written by an upsert of its own provider's file of the      *)
(* version the row names, and that version is covered by the marker,        *)
(* whatever hosts serve and however many processes overlap.                 *)
THEOREM CrawlerRowsAreGenuine == Spec => []RowsAreGenuine
  <1>1. Init => RowsAreGenuine
    BY DEF Init, DB!Init, DB!NoRows, RowsAreGenuine
  <1>2. Inv /\ RowsAreGenuine /\ [Next]_vars => RowsAreGenuine'
    BY GenuineStep, GenuineElse
  <1> QED BY <1>1, <1>2, CrawlerInvariant, PTL DEF Spec

---------------------------------------------------------------------------
(* One process: what it read of the marker is what the marker is. *)

Fresh(c) ==
    /\ pc[c] = "index" => last[c] = LastApplied(Provider(c))
    /\ pc[c] \in {"segment", "apply"} =>
          \A v \in pending[c] : v > LastApplied(Provider(c))

SoleInv == /\ Sole
           /\ Inv
           /\ CatalogMatchesMarker
           /\ \A c \in Procs : Fresh(c)

(* A segment newer than the marker is the one right after it. *)
LEMMA AdvancesByOne ==
    ASSUME Inv, NEW c \in Procs, Apply(c), NEW p, p = Provider(c),
           Version(c) > LastApplied(p)
    PROVE  /\ p \in Providers
           /\ LastApplied(p) + 1 \in DOMAIN Files[p]
           /\ IsSegment(Files[p][LastApplied(p) + 1], p, LastApplied(p) + 1)
           /\ Version(c) = LastApplied(p) + 1
           /\ LastApplied(p)' = LastApplied(p) + 1
           /\ catalog_items'[p]
                = Merge(catalog_items[p], Content[Files[p][LastApplied(p) + 1]])
           /\ \A q \in Providers \ {p} :
                 catalog_items'[q] = catalog_items[q] /\ LastApplied(q)' = LastApplied(q)
  <1>1. TypeOK /\ Control(c) /\ Behind(c) BY DEF Inv
  <1>2. p \in Providers BY <1>1, ApplyFacts
  <1>3. PICK n \in Nat : n = LastApplied(p) BY <1>1, <1>2, Typed
  <1>4. PICK v : v = Version(c) OBVIOUS
  <1>5. /\ v \in pending[c] /\ v \in 1..(n + 1)
        /\ segment[c] = Files[p][v]
        /\ catalog_items'[p] = Merge(catalog_items[p], Content[segment[c]])
        /\ LastApplied(p)' = IF v > n THEN v ELSE n
        /\ \A q \in Providers \ {p} :
              catalog_items'[q] = catalog_items[q] /\ LastApplied(q)' = LastApplied(q)
    BY <1>1, <1>3, <1>4, ApplyFacts
  <1>6. pc[c] = "apply" BY DEF Apply
  <1>7. v > n BY <1>3, <1>4
  <1>8. v = n + 1 BY <1>5, <1>7
  <1>9. /\ pending[c] \subseteq DOMAIN Files[p]
        /\ IsSegment(segment[c], p, v)
    BY <1>1, <1>4, <1>6 DEF Control, VerifySegment
  <1> QED BY <1>2, <1>3, <1>4, <1>5, <1>7, <1>8, <1>9

(* What a process with a fresh reading of the marker applies is newer.      *)
LEMMA FreshIsNewer ==
    ASSUME Inv, NEW c \in Procs, Fresh(c), Apply(c)
    PROVE  Version(c) > LastApplied(Provider(c))
  <1>1. TypeOK /\ Control(c) /\ Behind(c) BY DEF Inv
  <1>2. pc[c] = "apply" /\ Version(c) \in pending[c] BY <1>1, ApplyFacts DEF Apply
  <1> QED BY <1>2 DEF Fresh

LEMMA AppliesNext ==
    ASSUME Inv, NEW c \in Procs, Fresh(c), Apply(c), NEW p, p = Provider(c)
    PROVE  /\ p \in Providers
           /\ Version(c) = LastApplied(p) + 1
           /\ LastApplied(p)' = LastApplied(p) + 1
           /\ \A q \in Providers \ {p} :
                 catalog_items'[q] = catalog_items[q] /\ LastApplied(q)' = LastApplied(q)
  <1>1. Version(c) > LastApplied(p) BY FreshIsNewer
  <1> QED BY <1>1, AdvancesByOne

LEMMA FreshAfterApply ==
    ASSUME Inv, NEW c \in Procs, Fresh(c), Apply(c)
    PROVE  Fresh(c)'
  <1>1. TypeOK /\ Control(c) BY DEF Inv
  <1>2. PICK p : p = Provider(c) OBVIOUS
  <1>3. PICK v : v = Version(c) OBVIOUS
  <1>4. pc[c] = "apply" /\ pending[c] # {} /\ pending[c] \in SUBSET Versions
    BY <1>1 DEF Apply, Control, TypeOK
  <1>5. v \in pending[c] /\ \A w \in pending[c] : v <= w
    BY <1>3, <1>4, EarliestFacts DEF Version
  <1>6. p \in Providers /\ v = LastApplied(p) + 1 /\ LastApplied(p)' = LastApplied(p) + 1
    BY <1>2, <1>3, AppliesNext
  <1>7. CASE pending[c] = {v}
    <2>1. pc'[c] \in {"exited", "manifest"}
      BY <1>1, <1>3, <1>7 DEF Apply, Finish, Goto, TypeOK
    <2> QED BY <2>1 DEF Fresh
  <1>8. CASE pending[c] # {v}
    <2>1. pending'[c] = pending[c] \ {v} /\ pc'[c] = "segment" /\ report' = report
      BY <1>1, <1>3, <1>8 DEF Apply, Goto, TypeOK
    <2>2. LastApplied(Provider(c))' = v
      BY <1>2, <1>6, <2>1 DEF Provider, LastApplied, DB!LastApplied
    <2>3. \A w \in pending'[c] : w > v
      <3>1. v \in Int /\ \A w \in pending[c] : w \in Int BY <1>4, <1>5 DEF Versions
      <3> QED BY <1>5, <2>1, <3>1
    <2> QED BY <2>1, <2>2, <2>3 DEF Fresh
  <1> QED BY <1>7, <1>8

LEMMA FreshElse ==
    ASSUME Inv, NEW c \in Procs, Fresh(c), Step(c) \/ Crash(c), ~Apply(c),
           \A p \in Providers : LastApplied(p)' = LastApplied(p)
    PROVE  Fresh(c)'
  <1>1. TypeOK /\ Control(c) BY DEF Inv
  <1>2. CASE ReadState(c)
    <2>1. pc[c] = "state" /\ pc[c] \in Working BY <1>2 DEF ReadState, Working
    <2>2. PICK p \in Providers : p = Provider(c) BY <1>1, <2>1, ProviderOf
    <2>3. pc'[c] = "index" /\ last'[c] = LastApplied(p) /\ report' = report
      BY <1>1, <1>2, <2>2 DEF ReadState, Goto, TypeOK
    <2>4. LastApplied(Provider(c))' = LastApplied(p)
      <3>1. LastApplied(Provider(c))' = LastApplied(p)'
        BY <2>2, <2>3 DEF Provider, LastApplied, DB!LastApplied
      <3> QED BY <3>1
    <2> QED BY <2>3, <2>4 DEF Fresh
  <1>3. CASE AcceptIndex(c)
    <2>1. pc[c] = "index" /\ pc[c] \in Working
      BY <1>3 DEF AcceptIndex, IndexServed, Working
    <2>2. PICK p \in Providers : p = Provider(c) BY <1>1, <2>1, ProviderOf
    <2>3. PICK q \in Providers : \E k \in DOMAIN Publications[q] :
             /\ pending' = [pending EXCEPT ![c] = Pending(Publications[q][k].segments, last[c])]
             /\ Goto(c, IF Pending(Publications[q][k].segments, last[c]) = {}
                        THEN "record" ELSE "segment")
             /\ report' = report
      BY <1>3 DEF AcceptIndex
    <2>4. PICK k \in DOMAIN Publications[q] :
             /\ pending' = [pending EXCEPT ![c] = Pending(Publications[q][k].segments, last[c])]
             /\ Goto(c, IF Pending(Publications[q][k].segments, last[c]) = {}
                        THEN "record" ELSE "segment")
             /\ report' = report
      BY <2>3
    <2>5. PICK segments \in SUBSET Versions : segments = Publications[q][k].segments
      BY Documents
    <2>6. last[c] \in Nat BY <1>1 DEF TypeOK
    <2>7. pending'[c] = Pending(segments, last[c]) BY <1>1, <2>4, <2>5 DEF TypeOK
    <2>8. \A v \in pending'[c] : v > last[c] BY <2>5, <2>6, <2>7, PendingFacts
    <2>9. pc'[c] \in {"record", "segment"} BY <1>1, <2>4 DEF Goto, TypeOK
    <2>10. last[c] = LastApplied(p) BY <2>1, <2>2 DEF Fresh
    <2>11. LastApplied(Provider(c))' = LastApplied(p)
      <3>1. LastApplied(Provider(c))' = LastApplied(p)'
        BY <2>2, <2>4 DEF Provider, LastApplied, DB!LastApplied
      <3> QED BY <3>1
    <2> QED BY <2>8, <2>9, <2>10, <2>11 DEF Fresh
  <1>4. CASE AcceptSegment(c)
    <2>1. /\ pc[c] = "segment" /\ pc[c] \in Working
          /\ pending' = pending /\ report' = report /\ pc'[c] = "apply"
      BY <1>1, <1>4 DEF AcceptSegment, SegmentServed, Goto, TypeOK, Working
    <2>2. PICK p \in Providers : p = Provider(c) BY <1>1, <2>1, ProviderOf
    <2>3. LastApplied(Provider(c))' = LastApplied(p)
      <3>1. LastApplied(Provider(c))' = LastApplied(p)'
        BY <2>1, <2>2 DEF Provider, LastApplied, DB!LastApplied
      <3> QED BY <3>1
    <2> QED BY <2>1, <2>2, <2>3 DEF Fresh
  <1>5. CASE ~ReadState(c) /\ ~AcceptIndex(c) /\ ~AcceptSegment(c)
    <2>1. pc'[c] \notin {"index", "segment", "apply"}
      <3> USE <1>1 DEF TypeOK, Goto
      <3>1. CASE Start(c) \/ AcceptManifest(c) BY <3>1 DEF Start, AcceptManifest
      <3>2. CASE RejectManifest(c) \/ RejectIndex(c) \/ RejectSegment(c) \/ FetchFails(c)
        BY <3>2 DEF RejectManifest, RejectIndex, RejectSegment, FetchFails, Failed
      <3>3. CASE ApplyFails(c) \/ RecordUpToDateFails(c)
        BY <3>3 DEF ApplyFails, RecordUpToDateFails, Failed
      <3>4. CASE Record(c) \/ RecordFailedFails(c)
        BY <3>4 DEF Record, RecordFailedFails, Finish
      <3>5. CASE Overflow(c) \/ Escape(c) \/ Crash(c)
        BY <3>5 DEF Overflow, Escape, Crash, Stop
      <3> QED BY <1>5, <3>1, <3>2, <3>3, <3>4, <3>5 DEF Step
    <2> QED BY <2>1 DEF Fresh
  <1> QED BY <1>2, <1>3, <1>4, <1>5

LEMMA FreshUntouched ==
    ASSUME Inv, NEW c \in Procs, Fresh(c), Untouched(c),
           \A p \in Providers : LastApplied(p)' = LastApplied(p)
    PROVE  Fresh(c)'
  <1>1. TypeOK /\ Control(c) BY DEF Inv
  <1>2. CASE pc[c] \notin {"index", "segment", "apply"}
    BY <1>2 DEF Fresh, Untouched
  <1>3. CASE pc[c] \in {"index", "segment", "apply"}
    <2>1. PICK p \in Providers : p = Provider(c) BY <1>1, <1>3, ProviderOf DEF Working
    <2>2. LastApplied(Provider(c))' = LastApplied(p)'
      BY <2>1 DEF Provider, Untouched, LastApplied, DB!LastApplied
    <2>3. LastApplied(Provider(c))' = LastApplied(p) BY <2>2
    <2> QED BY <1>3, <2>1, <2>3 DEF Fresh, Untouched
  <1> QED BY <1>2, <1>3

---------------------------------------------------------------------------
(* One process replicates. *)

(* The marker of each provider: what Follows substitutes for version. *)
Markers == [p \in Providers |-> LastApplied(p)]

LEMMA MarkerAdvances ==
    ASSUME Inv, NEW c \in Procs, Apply(c), NEW p, p = Provider(c),
           Version(c) > LastApplied(p), MatchesMarker(p)
    PROVE  MatchesMarker(p)' /\ p \in Providers /\ Follows!Advance(p)
  <1>2. p \in Providers BY AdvancesByOne
  <1>3. TypeOK BY DEF Inv
  <1>4. PICK n \in Nat : n = LastApplied(p) BY <1>2, <1>3, Typed
  <1>5. /\ n + 1 \in DOMAIN Files[p] /\ IsSegment(Files[p][n + 1], p, n + 1)
        /\ LastApplied(p)' = n + 1
        /\ catalog_items'[p] = Merge(catalog_items[p], Content[Files[p][n + 1]])
        /\ \A q \in Providers \ {p} :
              catalog_items'[q] = catalog_items[q] /\ LastApplied(q)' = LastApplied(q)
    BY <1>4, AdvancesByOne
  <1>6. Inventory[p][n + 1] = Merge(Inventory[p][n], Content[Files[p][n + 1]])
    <2>1. Inventory[p][n + 1] = Merge(Inventory[p][(n + 1) - 1], Content[Files[p][n + 1]])
      BY <1>2, <1>5, InventoryAssumption
    <2>2. (n + 1) - 1 = n OBVIOUS
    <2> QED BY <2>1, <2>2
  <1>7. catalog_items[p] = Inventory[p][n] BY <1>4 DEF MatchesMarker
  <1>8. catalog_items'[p] = Inventory[p][n + 1] BY <1>5, <1>6, <1>7
  <1>10. MatchesMarker(p)' BY <1>5, <1>8 DEF MatchesMarker
  <1>11. Markers[p] = n /\ Markers' = [Markers EXCEPT ![p] = n + 1]
    <2>1. Markers[p] = n BY <1>2, <1>4 DEF Markers
    <2>2. \A q \in Providers : LastApplied(q)' = IF q = p THEN n + 1 ELSE LastApplied(q)
      BY <1>5
    <2>3. Markers' = [q \in Providers |-> LastApplied(q)'] BY DEF Markers
    <2>4. Markers' = [q \in Providers |-> IF q = p THEN n + 1 ELSE LastApplied(q)]
      BY <2>2, <2>3
    <2> QED BY <2>1, <2>4 DEF Markers
  <1>12. catalog_items' = [catalog_items EXCEPT ![p] = Inventory[p][n + 1]]
    <2>1. catalog_items \in [Providers -> Rows] /\ catalog_items' \in [Providers -> Rows]
      <3>1. TypeOK' BY NextInv, <1>3, ApplyKeeps DEF Inv
      <3> QED BY <1>3, <3>1, SameOperators DEF TypeOK
    <2> QED BY <1>2, <1>5, <1>8, <2>1
  <1>13. n < Len(Files[p])
    <2>1. Files[p] \in Seq(Digests) BY <1>2, Documents
    <2>2. DOMAIN Files[p] = 1..Len(Files[p]) /\ Len(Files[p]) \in Nat
      BY <2>1, LenProperties
    <2>3. n + 1 <= Len(Files[p]) BY <1>5, <2>2
    <2> QED BY <2>2, <2>3
  <1>14. Follows!Advance(p)
    BY <1>2, <1>11, <1>12, <1>13 DEF Follows!Advance, Markers
  <1> QED BY <1>2, <1>10, <1>14

(* Applying the newest segment once more: the rows already hold what it     *)
(* writes, and the marker stays.                                            *)
LEMMA NewestReplays ==
    ASSUME Inv, NEW c \in Procs, Apply(c), NEW p, p = Provider(c),
           Version(c) = LastApplied(p), MatchesMarker(p)
    PROVE  MatchesMarker(p)' /\ UNCHANGED <<catalog_items, Markers>>
  <1>1. TypeOK /\ Control(c) /\ Behind(c) BY DEF Inv
  <1>2. p \in Providers BY <1>1, ApplyFacts
  <1>3. PICK n \in Nat : n = LastApplied(p) BY <1>1, <1>2, Typed
  <1>4. PICK s : s = Content[Files[p][n]] OBVIOUS
  <1>5. /\ n \in 1..(n + 1) /\ n \in pending[c] /\ segment[c] = Files[p][n]
        /\ catalog_items'[p] = Merge(catalog_items[p], s)
        /\ LastApplied(p)' = n
        /\ \A q \in Providers \ {p} :
              catalog_items'[q] = catalog_items[q] /\ LastApplied(q)' = LastApplied(q)
    BY <1>1, <1>3, <1>4, ApplyFacts
  <1>6. n \in DOMAIN Files[p] /\ IsSegment(Files[p][n], p, n)
    <2>1. pc[c] = "apply" BY DEF Apply
    <2> QED BY <1>1, <1>3, <1>5, <2>1 DEF Control, VerifySegment
  <1>7. Inventory[p][n] = Merge(Inventory[p][n - 1], s)
    BY <1>2, <1>4, <1>6, InventoryAssumption
  <1>8. catalog_items[p] = Inventory[p][n] BY <1>3 DEF MatchesMarker
  <1>9. catalog_items'[p] = catalog_items[p] BY <1>5, <1>7, <1>8, MergeIdempotent
  <1>10. /\ \A q \in Providers : LastApplied(q)' = LastApplied(q)
         /\ \A q \in Providers : catalog_items'[q] = catalog_items[q]
    BY <1>3, <1>5, <1>9
  <1>11. catalog_items' = catalog_items
    <2>1. catalog_items \in [Providers -> Rows] /\ catalog_items' \in [Providers -> Rows]
      <3>1. TypeOK' BY <1>1, ApplyKeeps
      <3> QED BY <1>1, <3>1, SameOperators DEF TypeOK
    <2> QED BY <1>10, <2>1
  <1>12. Markers' = Markers
    <2>1. Markers' = [q \in Providers |-> LastApplied(q)'] BY DEF Markers
    <2> QED BY <1>10, <2>1 DEF Markers
  <1>13. MatchesMarker(p)' BY <1>2, <1>8, <1>9, <1>10, <1>3 DEF MatchesMarker
  <1> QED BY <1>11, <1>12, <1>13

(* The rows of a provider keep matching its marker unless a process applies *)
(* to them a segment the marker has left behind.                            *)
LEMMA MatchStep ==
    ASSUME Inv, [Next]_vars, NEW p \in Providers, MatchesMarker(p),
           ~ \E c \in Procs : ReplaysOld(c) /\ Provider(c) = p
    PROVE  MatchesMarker(p)'
  <1>1. ASSUME NEW c \in Procs, Apply(c), p = Provider(c) PROVE MatchesMarker(p)'
    <2>1. Version(c) \in Nat /\ LastApplied(p) \in Nat
      BY <1>1, ApplyFacts, Typed DEF Inv
    <2>2. ~(Version(c) < LastApplied(p)) BY <1>1 DEF ReplaysOld, Apply
    <2>3. Version(c) > LastApplied(p) \/ Version(c) = LastApplied(p) BY <2>1, <2>2
    <2> QED BY <1>1, <2>3, MarkerAdvances, NewestReplays
  <1>2. ASSUME NEW c \in Procs, Apply(c), p # Provider(c) PROVE MatchesMarker(p)'
    <2>1. catalog_items'[p] = catalog_items[p] /\ LastApplied(p)' = LastApplied(p)
      BY <1>2, ApplyFacts DEF Inv
    <2> QED BY <2>1 DEF MatchesMarker
  <1>3. CASE \A c \in Procs : ~Apply(c)
    <2>1. catalog_items' = catalog_items /\ LastApplied(p)' = LastApplied(p)
      BY <1>3, OnlyApplyWrites
    <2> QED BY <2>1 DEF MatchesMarker
  <1> QED BY <1>1, <1>2, <1>3

(* While nothing of the kind happens the whole catalog is a replica. *)
LEMMA FollowStep ==
    ASSUME Inv, CatalogMatchesMarker, [Next]_vars, \A c \in Procs : ~ReplaysOld(c)
    PROVE  /\ CatalogMatchesMarker'
           /\ [\E p \in Providers : Follows!Advance(p)]_<<catalog_items, Markers>>
  <1>1. \A p \in Providers : MatchesMarker(p) BY DEF CatalogMatchesMarker
  <1>2. \A p \in Providers : MatchesMarker(p)' BY <1>1, MatchStep
  <1>3. CatalogMatchesMarker' BY <1>2 DEF CatalogMatchesMarker
  <1>4. ASSUME NEW c \in Procs, Apply(c)
        PROVE  [\E p \in Providers : Follows!Advance(p)]_<<catalog_items, Markers>>
    <2>1. PICK p : p = Provider(c) OBVIOUS
    <2>2. p \in Providers /\ Version(c) \in Nat /\ LastApplied(p) \in Nat
      BY <1>4, <2>1, ApplyFacts, Typed DEF Inv
    <2>3. ~(Version(c) < LastApplied(p)) BY <1>4, <2>1 DEF ReplaysOld, Apply
    <2>4. Version(c) > LastApplied(p) \/ Version(c) = LastApplied(p) BY <2>2, <2>3
    <2> QED BY <1>1, <1>4, <2>1, <2>2, <2>4, MarkerAdvances, NewestReplays
  <1>5. CASE \A c \in Procs : ~Apply(c)
    <2>1. /\ catalog_items' = catalog_items
          /\ \A p \in Providers : LastApplied(p)' = LastApplied(p)
      BY <1>5, OnlyApplyWrites
    <2>2. Markers' = Markers
      <3>1. Markers' = [p \in Providers |-> LastApplied(p)'] BY DEF Markers
      <3> QED BY <2>1, <3>1 DEF Markers
    <2> QED BY <1>3, <2>1, <2>2
  <1> QED BY <1>3, <1>4, <1>5

LEMMA FreshNext ==
    ASSUME SoleInv, [Next]_vars, NEW c \in Procs
    PROVE  Fresh(c)'
  <1>1. Inv /\ Fresh(c) /\ Sole /\ TypeOK BY DEF SoleInv, Inv
  <1>2. CASE Apply(c) BY <1>1, <1>2, FreshAfterApply
  <1>3. CASE ~Apply(c)
    <2>1. \A d \in Procs : d = c BY <1>1 DEF Sole
    <2>2. \A d \in Procs : ~Apply(d) BY <1>3, <2>1
    <2>3. \A p \in Providers : LastApplied(p)' = LastApplied(p)
      BY <1>1, <2>2, OnlyApplyWrites
    <2>4. CASE Step(c) \/ Crash(c) BY <1>1, <1>3, <2>3, <2>4, FreshElse
    <2>5. CASE \E p \in Providers : Publish(p)
      <3>1. Untouched(c) BY <2>5 DEF Publish, Untouched, crawl
      <3> QED BY <1>1, <2>3, <3>1, FreshUntouched
    <2>6. CASE UNCHANGED vars
      <3>1. Untouched(c) BY <2>6 DEF vars, Untouched, crawl
      <3> QED BY <1>1, <2>3, <3>1, FreshUntouched
    <2> QED BY <2>1, <2>4, <2>5, <2>6 DEF Next
  <1> QED BY <1>2, <1>3

LEMMA SoleInvStep ==
    ASSUME SoleInv, [Next]_vars
    PROVE  /\ SoleInv'
           /\ [\E p \in Providers : Follows!Advance(p)]_<<catalog_items, Markers>>
  <1>1. Sole /\ Inv /\ CatalogMatchesMarker /\ \A c \in Procs : Fresh(c) BY DEF SoleInv
  <1>2. Inv' BY <1>1, NextInv, StutterInv
  <1>3. \A c \in Procs : Fresh(c)' BY FreshNext
  <1>4. Sole' BY <1>1 DEF Sole
  <1>5. /\ CatalogMatchesMarker'
        /\ [\E p \in Providers : Follows!Advance(p)]_<<catalog_items, Markers>>
    <2>1. ASSUME NEW c \in Procs, ReplaysOld(c) PROVE FALSE
      <3>1. PICK p : p = Provider(c) OBVIOUS
      <3>2. Apply(c) /\ Version(c) < LastApplied(p) BY <2>1, <3>1 DEF ReplaysOld
      <3>3. Version(c) > LastApplied(p) BY <1>1, <3>1, <3>2, FreshIsNewer
      <3>4. Version(c) \in Nat /\ LastApplied(p) \in Nat
        BY <1>1, <3>1, <3>2, ApplyFacts, Typed DEF Inv
      <3> QED BY <3>2, <3>3, <3>4
    <2> QED BY <1>1, <2>1, FollowStep
  <1> QED BY <1>2, <1>3, <1>4, <1>5 DEF SoleInv

LEMMA FollowInit ==
    ASSUME Init
    PROVE  Inv /\ CatalogMatchesMarker /\ Follows!Init
  <1>1. Inv BY InitInv
  <1>2. /\ catalog_items = [p \in Providers |-> NoRows]
        /\ \A p \in Providers : LastApplied(p) = 0
    <2>1. provider_state = [p \in Providers |-> None] BY DEF Init, DB!Init
    <2> QED BY <2>1, SameOperators DEF Init, DB!Init, DB!NoRows, NoRows, Applied
  <1>3. CatalogMatchesMarker
    BY <1>2, InventoryAssumption DEF CatalogMatchesMarker, MatchesMarker
  <1>4. Follows!Init BY <1>2 DEF Follows!Init
  <1> QED BY <1>1, <1>3, <1>4

LEMMA SoleInit ==
    ASSUME Sole, Init
    PROVE  SoleInv /\ Follows!Init
  <1>1. \A c \in Procs : Fresh(c) BY DEF Init, Fresh
  <1> QED BY <1>1, FollowInit DEF SoleInv

(* As long as one process at a time uses the database, the rows of each     *)
(* provider are its own inventory at exactly the marker's version: the key  *)
(* invariant of storage.py, through failures, crashes and restarts.         *)
THEOREM CrawlerMatchesMarker == Sole /\ Spec => []CatalogMatchesMarker
  <1>1. Sole /\ Init => SoleInv BY SoleInit
  <1>2. SoleInv /\ [Next]_vars => SoleInv' BY SoleInvStep
  <1>3. SoleInv => CatalogMatchesMarker BY DEF SoleInv
  <1> QED BY <1>1, <1>2, <1>3, PTL DEF Spec

(* ... and it implements Replica: the catalog follows each provider one     *)
(* version at a time, never skipping one and never going back.              *)
THEOREM CrawlerReplicates == Sole /\ Spec => Replication
  <1>1. Sole /\ Init => SoleInv /\ Follows!Init BY SoleInit
  <1>2. SoleInv /\ [Next]_vars => SoleInv' BY SoleInvStep
  <1>3. SoleInv /\ [Next]_vars => [Follows!Next]_<<catalog_items, Markers>>
    BY SoleInvStep DEF Follows!Next
  <1>4. <<catalog_items, Markers>>
          = <<catalog_items, [p \in Providers |-> LastApplied(p)]>>
    BY DEF Markers
  <1> QED BY <1>1, <1>2, <1>3, PTL DEF Spec, Replication, Follows!Spec, Markers

---------------------------------------------------------------------------
(* Any number of processes. *)

(* The rows of a provider cease to match its marker only when a process     *)
(* applies to them a segment older than the marker; replaying the newest    *)
(* one, and whatever happens to other providers, keeps them right.          *)
THEOREM CrawlerOnlyOldReplaysDiverge == Spec => OnlyOldReplaysDiverge
  <1>1. Inv /\ [Next]_vars =>
           [\A p \in Providers : MatchesMarker(p) =>
               MatchesMarker(p)' \/ \E c \in Procs : ReplaysOld(c) /\ Provider(c) = p]_vars
    BY MatchStep
  <1> QED BY <1>1, CrawlerInvariant, PTL DEF Spec, OnlyOldReplaysDiverge

LEMMA ApplyMoves ==
    ASSUME TypeOK, NEW c \in Procs, Apply(c)
    PROVE  ~UNCHANGED vars
  <1>1. pc[c] = "apply" /\ pc'[c] \in {"segment", "exited", "manifest"}
    BY DEF TypeOK, Apply, Finish, Goto
  <1> QED BY <1>1 DEF vars

(* A store that would refuse a segment older than its marker. *)
RefusesOld == [][\A c \in Procs : ~ReplaysOld(c)]_vars

(* With such a store crawls may overlap as they like: the rows of each      *)
(* provider are its inventory at the marker, and the catalog follows each   *)
(* provider one version at a time.  That one guard in apply_segment is all  *)
(* the key invariant lacks.                                                 *)
THEOREM CrawlerReplicatesRefusingOld ==
    Spec /\ RefusesOld => []CatalogMatchesMarker /\ Replication
  <1> DEFINE I == Inv /\ CatalogMatchesMarker
  <1>1. Init => I /\ Follows!Init BY FollowInit
  <1>2. I /\ [Next]_vars /\ [\A c \in Procs : ~ReplaysOld(c)]_vars
           => I' /\ [Follows!Next]_<<catalog_items, Markers>>
    <2> SUFFICES ASSUME I, [Next]_vars, [\A c \in Procs : ~ReplaysOld(c)]_vars
                 PROVE  I' /\ [Follows!Next]_<<catalog_items, Markers>>
      OBVIOUS
    <2>1. Inv' BY NextInv, StutterInv
    <2>2. CASE \A c \in Procs : ~ReplaysOld(c) BY <2>1, <2>2, FollowStep DEF Follows!Next
    <2>3. CASE UNCHANGED vars
      <3>1. \A c \in Procs : ~Apply(c) BY <2>3, ApplyMoves DEF Inv
      <3> QED BY <2>1, <3>1, FollowStep DEF Follows!Next, ReplaysOld
    <2> QED BY <2>2, <2>3
  <1>3. I => CatalogMatchesMarker OBVIOUS
  <1>4. <<catalog_items, Markers>>
          = <<catalog_items, [p \in Providers |-> LastApplied(p)]>>
    BY DEF Markers
  <1> HIDE DEF I
  <1> QED BY <1>1, <1>2, <1>3, PTL
        DEF Spec, RefusesOld, Replication, Follows!Spec, Markers

---------------------------------------------------------------------------
(* What a step does to the report of its process: it begins one, goes on   *)
(* with a visit, ends a visit or abandons the crawl.                       *)

Begins(c) ==
    /\ pc'[c] = "manifest" /\ report'[c] = <<>> /\ result'[c] = NewResult(Config[1])
    /\ UNCHANGED tables

(* A visit goes on: nothing is applied, and only a failure or an empty     *)
(* choice of segments, both on their way to be recorded, sets the status.  *)
Proceeds(c) ==
    /\ pc[c] \in Working /\ pc'[c] \in Working
    /\ report'[c] = report[c]
    /\ result'[c] \in Result
    /\ result'[c].segments_applied = result[c].segments_applied
    /\ pc[c] = "record" => pc'[c] = "record"
    /\ pc'[c] # "record" => result'[c].status = result[c].status
    /\ \/ result'[c].index_version = result[c].index_version
       \/ \E q \in Providers : \E k \in DOMAIN Publications[q] :
              result'[c].index_version = Publications[q][k].version
    /\ UNCHANGED tables

Abandons(c) ==
    /\ report'[c] = report[c]
    /\ \/ pc'[c] = "idle"
       \/ pc'[c] = "aborted" /\ (Overflow(c) \/ Escape(c))
    /\ UNCHANGED tables

Ends(c) == Record(c) \/ RecordFailedFails(c)

LEMMA FailedProceeds ==
    ASSUME TypeOK, NEW c \in Procs, Control(c), pc[c] \in Working, Failed(c)
    PROVE  Proceeds(c)
  <1>1. result[c] \in Result BY DEF Control
  <1>2. /\ result'[c] = [result[c] EXCEPT !.status = "failed"]
        /\ pc'[c] = "record" /\ report'[c] = report[c] /\ UNCHANGED tables
    BY DEF TypeOK, Failed, Goto
  <1>3. "failed" \in Statuses BY DEF Statuses
  <1>4. /\ result'[c] \in Result
        /\ result'[c].segments_applied = result[c].segments_applied
        /\ result'[c].index_version = result[c].index_version
    BY <1>1, <1>2, <1>3 DEF Result
  <1> QED BY <1>2, <1>4 DEF Proceeds, Working

LEMMA IndexProceeds ==
    ASSUME TypeOK, NEW c \in Procs, Control(c), Behind(c), AcceptIndex(c)
    PROVE  Proceeds(c)
  <1>1. PICK q \in Providers : \E k \in DOMAIN Publications[q] :
            LET payload == Publications[q][k]
                chosen == Pending(payload.segments, last[c])
            IN  /\ IndexServed(c, q, k)
                /\ result' = [result EXCEPT ![c] =
                       [result[c] EXCEPT !.index_version = payload.version,
                           !.status = IF chosen = {} THEN "up-to-date" ELSE @]]
                /\ Goto(c, IF chosen = {} THEN "record" ELSE "segment")
                /\ UNCHANGED <<tables, report>>
    BY DEF AcceptIndex
  <1>2. PICK k \in DOMAIN Publications[q] :
            LET payload == Publications[q][k]
                chosen == Pending(payload.segments, last[c])
            IN  /\ IndexServed(c, q, k)
                /\ result' = [result EXCEPT ![c] =
                       [result[c] EXCEPT !.index_version = payload.version,
                           !.status = IF chosen = {} THEN "up-to-date" ELSE @]]
                /\ Goto(c, IF chosen = {} THEN "record" ELSE "segment")
                /\ UNCHANGED <<tables, report>>
    BY <1>1
  <1>3. PICK n : n = Publications[q][k].version OBVIOUS
  <1>4. n \in Versions BY <1>3, Documents
  <1>5. PICK empty \in BOOLEAN : empty = (Pending(Publications[q][k].segments, last[c]) = {})
    OBVIOUS
  <1>6. /\ pc[c] = "index" /\ UNCHANGED <<tables, report>>
        /\ result' = [result EXCEPT ![c] =
               [result[c] EXCEPT !.index_version = n,
                   !.status = IF empty THEN "up-to-date" ELSE @]]
        /\ Goto(c, IF empty THEN "record" ELSE "segment")
    BY <1>2, <1>3, <1>5 DEF IndexServed
  <1>7. result[c] \in Result BY <1>6 DEF Control, Working
  <1>8. PICK status \in Statuses : status = IF empty THEN "up-to-date" ELSE result[c].status
    BY <1>7 DEF Result, Statuses
  <1>9. result'[c] = [result[c] EXCEPT !.index_version = n, !.status = status]
    BY <1>6, <1>7, <1>8 DEF TypeOK, Result
  <1>10. /\ result'[c] \in Result /\ result'[c].index_version = n
         /\ result'[c].status = status
         /\ result'[c].segments_applied = result[c].segments_applied
    BY <1>4, <1>7, <1>9 DEF Result
  <1>11. pc'[c] = IF empty THEN "record" ELSE "segment" BY <1>6 DEF TypeOK, Goto
  <1> QED BY <1>3, <1>6, <1>8, <1>10, <1>11 DEF Proceeds, Working

LEMMA ReportStep ==
    ASSUME TypeOK, NEW c \in Procs, Control(c), Behind(c), Step(c) \/ Crash(c)
    PROVE  Begins(c) \/ Proceeds(c) \/ Abandons(c) \/ Apply(c) \/ Ends(c)
  <1>1. CASE Start(c)
    <2>1. /\ pc'[c] = "manifest" /\ report'[c] = <<>> /\ result'[c] = NewResult(Config[1])
          /\ UNCHANGED tables
      BY <1>1 DEF TypeOK, Start, Goto
    <2> QED BY <2>1 DEF Begins
  <1>2. CASE AcceptManifest(c) \/ ReadState(c) \/ AcceptSegment(c)
    <2>1. /\ pc[c] \in {"manifest", "state", "segment"} /\ pc'[c] \in {"state", "index", "apply"}
          /\ UNCHANGED <<tables, result, report>>
      BY <1>2 DEF TypeOK, AcceptManifest, ManifestServed, ReadState, AcceptSegment,
                  SegmentServed, Goto
    <2>2. result[c] \in Result BY <2>1 DEF Control, Working
    <2> QED BY <2>1, <2>2 DEF Proceeds, Working
  <1>3. CASE AcceptIndex(c) BY <1>3, IndexProceeds
  <1>4. CASE RejectManifest(c) \/ RejectIndex(c) \/ RejectSegment(c) \/ FetchFails(c)
             \/ ApplyFails(c) \/ RecordUpToDateFails(c)
    <2>1. Failed(c) /\ pc[c] \in Working
      BY <1>4 DEF RejectManifest, ManifestServed, RejectIndex, IndexServed, RejectSegment,
                  SegmentServed, FetchFails, ApplyFails, RecordUpToDateFails, Working
    <2> QED BY <2>1, FailedProceeds
  <1>5. CASE Overflow(c) \/ Escape(c) \/ Crash(c)
    <2>1. Stop(c, "aborted") \/ (Crash(c) /\ Stop(c, "idle"))
      BY <1>5 DEF Overflow, Escape, Crash
    <2>2. CASE Crash(c) /\ Stop(c, "idle")
      <3>1. pc'[c] = "idle" /\ report'[c] = report[c] /\ UNCHANGED tables
        BY <2>2 DEF TypeOK, Stop, Goto
      <3> QED BY <3>1 DEF Abandons
    <2>3. CASE Overflow(c) \/ Escape(c)
      <3>1. pc'[c] = "aborted" /\ report'[c] = report[c] /\ UNCHANGED tables
        BY <2>3 DEF TypeOK, Overflow, Escape, Stop, Goto
      <3> QED BY <2>3, <3>1 DEF Abandons
    <2>4. Crash(c) => Stop(c, "idle") BY DEF Crash
    <2> QED BY <1>5, <2>2, <2>3, <2>4
  <1> QED BY <1>1, <1>2, <1>3, <1>4, <1>5 DEF Step, Ends

---------------------------------------------------------------------------
(* What a report counts as applied is covered by the marker, and thereby,  *)
(* the audit trail being a prefix, by the audit trail.                     *)

Entries(c) ==
    \A n \in 1..Len(report[c]) :
        /\ report[c][n].provider_id = Config[n]
        /\ report[c][n].segments_applied \subseteq 1..LastApplied(Config[n])

Reporting(c) ==
    /\ Len(report[c]) <= Len(Config) /\ Entries(c)
    /\ pc[c] = "exited" => Len(report[c]) = Len(Config)
    /\ pc[c] \in Working => result[c].segments_applied \subseteq 1..LastApplied(Provider(c))

MarkersGrow ==
    \A p \in Providers :
        /\ LastApplied(p) \in Nat /\ LastApplied(p)' \in Nat
        /\ LastApplied(p)' >= LastApplied(p)

LEMMA InvMarkersGrow ==
    ASSUME Inv, [Next]_vars
    PROVE  MarkersGrow
  <1>1. \A p \in Providers : LastApplied(p)' \in {LastApplied(p), LastApplied(p) + 1}
    <2>1. CASE Next BY <2>1, NextInv
    <2>2. CASE UNCHANGED vars BY <2>2, StutterInv
    <2> QED BY <2>1, <2>2
  <1>2. \A p \in Providers : LastApplied(p) \in Nat BY Typed DEF Inv
  <1> QED BY <1>1, <1>2 DEF MarkersGrow

LEMMA RangeGrows ==
    ASSUME MarkersGrow, NEW p \in Providers
    PROVE  1..LastApplied(p) \subseteq 1..LastApplied(p)'
  <1>1. PICK m \in Nat, n \in Nat : m = LastApplied(p) /\ n = LastApplied(p)' /\ m <= n
    BY DEF MarkersGrow
  <1>2. 1..m \subseteq 1..n BY <1>1
  <1> QED BY <1>1, <1>2

LEMMA ReportLength ==
    ASSUME TypeOK, NEW c \in Procs
    PROVE  Len(report[c]) \in Nat /\ report[c] \in Seq(Result)
  BY LenProperties DEF TypeOK

LEMMA EntriesStay ==
    ASSUME TypeOK, MarkersGrow, NEW c \in Procs, Entries(c),
           Len(report[c]) <= Len(Config), report'[c] = report[c]
    PROVE  Entries(c)'
  <1>1. Len(report[c]) \in Nat /\ Len(Config) \in Nat BY ReportLength, ConfigFacts
  <1>2. ASSUME NEW n \in 1..Len(report[c])
        PROVE  /\ report'[c][n].provider_id = Config[n]
               /\ report'[c][n].segments_applied \subseteq 1..LastApplied(Config[n])'
    <2>1. n \in 1..Len(Config) BY <1>1
    <2>2. PICK p \in Providers : p = Config[n] BY <2>1, ConfigFacts
    <2>3. LastApplied(Config[n])' = LastApplied(p)' BY <2>2
    <2>4. report[c][n].segments_applied \subseteq 1..LastApplied(p) BY <2>2 DEF Entries
    <2> QED BY <2>2, <2>3, <2>4, RangeGrows DEF Entries
  <1> QED BY <1>2 DEF Entries

LEMMA ReportingUntouched ==
    ASSUME TypeOK, MarkersGrow, NEW c \in Procs, Control(c), Reporting(c), Untouched(c)
    PROVE  Reporting(c)'
  <1>1. /\ report'[c] = report[c] /\ pc'[c] = pc[c] /\ result'[c] = result[c]
        /\ Provider(c)' = Provider(c)
    BY DEF Untouched, Provider
  <1>2. Entries(c)' BY <1>1, EntriesStay DEF Reporting
  <1>3. ASSUME pc[c] \in Working
        PROVE  result'[c].segments_applied \subseteq 1..LastApplied(Provider(c))'
    <2>1. PICK p \in Providers : p = Provider(c) BY <1>3, ProviderOf
    <2>2. LastApplied(Provider(c))' = LastApplied(p)' BY <1>1, <2>1 DEF LastApplied, DB!LastApplied
    <2>3. result[c].segments_applied \subseteq 1..LastApplied(p) BY <1>3, <2>1 DEF Reporting
    <2> QED BY <1>1, <2>2, <2>3, RangeGrows
  <1> QED BY <1>1, <1>2, <1>3 DEF Reporting

LEMMA ReportingBegins ==
    ASSUME TypeOK, NEW c \in Procs, Begins(c)
    PROVE  Reporting(c)'
  <1>1. /\ pc'[c] = "manifest" /\ report'[c] = <<>> /\ Len(report'[c]) = 0
        /\ result'[c].segments_applied = {}
    BY EmptySeq DEF Begins, NewResult
  <1>2. Entries(c)' BY <1>1 DEF Entries
  <1>3. Len(report'[c]) <= Len(Config) BY <1>1, ConfigFacts
  <1> QED BY <1>1, <1>2, <1>3 DEF Reporting

LEMMA ReportingProceeds ==
    ASSUME TypeOK, MarkersGrow, NEW c \in Procs, Control(c), Reporting(c), Proceeds(c)
    PROVE  Reporting(c)'
  <1>1. /\ report'[c] = report[c] /\ pc[c] \in Working /\ pc'[c] \in Working
        /\ result'[c].segments_applied = result[c].segments_applied
        /\ Provider(c)' = Provider(c)
    BY DEF Proceeds, Provider
  <1>2. Entries(c)' BY <1>1, EntriesStay DEF Reporting
  <1>3. PICK p \in Providers : p = Provider(c) BY <1>1, ProviderOf
  <1>4. LastApplied(Provider(c))' = LastApplied(p)' BY <1>1, <1>3 DEF LastApplied, DB!LastApplied
  <1>5. result[c].segments_applied \subseteq 1..LastApplied(p) BY <1>1, <1>3 DEF Reporting
  <1>6. result'[c].segments_applied \subseteq 1..LastApplied(Provider(c))'
    BY <1>1, <1>4, <1>5, <1>3, RangeGrows
  <1>7. pc'[c] # "exited" BY <1>1 DEF Working
  <1> QED BY <1>1, <1>2, <1>6, <1>7 DEF Reporting

LEMMA ReportingAbandons ==
    ASSUME TypeOK, MarkersGrow, NEW c \in Procs, Reporting(c), Abandons(c)
    PROVE  Reporting(c)'
  <1>1. report'[c] = report[c] /\ pc'[c] \notin Working /\ pc'[c] # "exited"
    BY DEF Abandons, Working
  <1>2. Entries(c)' BY <1>1, EntriesStay DEF Reporting
  <1> QED BY <1>1, <1>2 DEF Reporting

(* One more result, for the provider whose turn it was. *)
LEMMA ReportingFinish ==
    ASSUME TypeOK, MarkersGrow, NEW c \in Procs, Control(c), Reporting(c),
           pc[c] \in Working, NEW r \in Result, Finish(c, r),
           NEW p \in Providers, p = Provider(c), r.provider_id = p,
           r.segments_applied \subseteq 1..LastApplied(p)'
    PROVE  Reporting(c)'
  <1>1. /\ report[c] \in Seq(Result) /\ Len(report[c]) \in Nat
        /\ Len(Config) \in Nat /\ Len(report[c]) < Len(Config)
    BY ReportLength, ConfigFacts DEF Control
  <1>2. PICK m \in Nat : m = Len(report[c]) BY <1>1
  <1>3. report'[c] = Append(report[c], r) BY DEF TypeOK, Finish
  <1>4. /\ Len(report'[c]) = m + 1 /\ report'[c][m + 1] = r
        /\ \A n \in 1..m : report'[c][n] = report[c][n]
    BY <1>1, <1>2, <1>3, AppendProperties
  <1>5. p = Config[m + 1] BY <1>2 DEF Provider
  <1>6. LastApplied(Config[m + 1])' = LastApplied(p)' BY <1>5
  <1>7. ASSUME NEW n \in 1..(m + 1)
        PROVE  /\ report'[c][n].provider_id = Config[n]
               /\ report'[c][n].segments_applied \subseteq 1..LastApplied(Config[n])'
    <2>1. CASE n = m + 1 BY <1>4, <1>5, <1>6, <2>1
    <2>2. CASE n # m + 1
      <3>1. n \in 1..m /\ n \in 1..Len(Config) BY <1>1, <1>2, <2>2
      <3>2. PICK q \in Providers : q = Config[n] BY <3>1, ConfigFacts
      <3>3. LastApplied(Config[n])' = LastApplied(q)' BY <3>2
      <3>4. /\ report[c][n].provider_id = Config[n]
            /\ report[c][n].segments_applied \subseteq 1..LastApplied(q)
        BY <1>2, <3>1, <3>2 DEF Reporting, Entries
      <3> QED BY <1>4, <3>1, <3>2, <3>3, <3>4, RangeGrows
    <2> QED BY <2>1, <2>2
  <1>8. Entries(c)' BY <1>4, <1>7 DEF Entries
  <1>9. Len(report'[c]) <= Len(Config) BY <1>1, <1>2, <1>4
  <1>10. CASE m + 1 = Len(Config)
    <2>1. pc'[c] = "exited" BY <1>2, <1>10 DEF TypeOK, Finish, Goto
    <2> QED BY <1>4, <1>8, <1>9, <1>10, <2>1 DEF Reporting, Working
  <1>11. CASE m + 1 # Len(Config)
    <2>1. pc'[c] = "manifest" /\ result'[c] = NewResult(Config[Len(report[c]) + 2])
      BY <1>2, <1>11 DEF TypeOK, Finish, Goto
    <2>2. result'[c].segments_applied = {} BY <2>1 DEF NewResult
    <2> QED BY <1>8, <1>9, <2>1, <2>2 DEF Reporting
  <1> QED BY <1>10, <1>11

LEMMA ReportingEnds ==
    ASSUME TypeOK, MarkersGrow, NEW c \in Procs, Control(c), Reporting(c), Ends(c)
    PROVE  Reporting(c)'
  <1>1. pc[c] = "record" /\ pc[c] \in Working /\ Finish(c, result[c])
    BY DEF Ends, Record, RecordFailedFails, Working
  <1>2. PICK p \in Providers : p = Provider(c) BY <1>1, ProviderOf
  <1>3. result[c] \in Result /\ result[c].provider_id = p BY <1>1, <1>2 DEF Control
  <1>4. result[c].segments_applied \subseteq 1..LastApplied(p)' BY <1>1, <1>2, RangeGrows DEF Reporting
  <1> QED BY <1>1, <1>2, <1>3, <1>4, ReportingFinish

LEMMA ReportingApply ==
    ASSUME TypeOK, MarkersGrow, NEW c \in Procs, Control(c), Behind(c), Reporting(c), Apply(c)
    PROVE  Reporting(c)'
  <1>1. PICK p : p = Provider(c) OBVIOUS
  <1>2. PICK v : v = Version(c) OBVIOUS
  <1>3. p \in Providers BY <1>1, ApplyFacts
  <1>4. PICK n \in Nat : n = LastApplied(p) BY <1>3, Typed
  <1>5. /\ v \in 1..(n + 1) /\ v \in pending[c]
        /\ LastApplied(p)' = IF v > n THEN v ELSE n
    BY <1>1, <1>2, <1>4, ApplyFacts
  <1>6. v \in 1..LastApplied(p)' BY <1>4, <1>5
  <1>7. /\ pc[c] = "apply" /\ pc[c] \in Working
        /\ result[c] \in Result /\ result[c].provider_id = p
    BY <1>1 DEF Apply, Working, Control
  <1>8. PICK applied : applied = [result[c] EXCEPT !.segments_applied = @ \union {v}]
    OBVIOUS
  <1>9. /\ applied \in Result /\ applied.provider_id = p
        /\ applied.segments_applied = result[c].segments_applied \union {v}
    <2>1. v \in Versions BY <1>5 DEF TypeOK
    <2> QED BY <1>7, <1>8, <2>1 DEF Result
  <1>10. applied.segments_applied \subseteq 1..LastApplied(p)'
    <2>1. result[c].segments_applied \subseteq 1..LastApplied(p) BY <1>1, <1>7 DEF Reporting
    <2> QED BY <1>3, <1>6, <1>9, <2>1, RangeGrows
  <1>11. IF pending[c] = {v}
         THEN Finish(c, applied)
         ELSE /\ result' = [result EXCEPT ![c] = applied]
              /\ Goto(c, "segment")
              /\ UNCHANGED report
    BY <1>2, <1>8 DEF Apply
  <1>12. CASE pending[c] = {v}
    BY <1>1, <1>3, <1>7, <1>9, <1>10, <1>11, <1>12, ReportingFinish
  <1>13. CASE pending[c] # {v}
    <2>1. /\ result'[c] = applied /\ pc'[c] = "segment" /\ report'[c] = report[c]
      BY <1>11, <1>13 DEF TypeOK, Goto
    <2>2. Provider(c)' = p BY <1>1, <2>1 DEF Provider
    <2>3. LastApplied(Provider(c))' = LastApplied(p)' BY <2>2 DEF LastApplied, DB!LastApplied
    <2>4. Entries(c)' BY <2>1, EntriesStay DEF Reporting
    <2> QED BY <1>10, <2>1, <2>3, <2>4 DEF Reporting
  <1> QED BY <1>12, <1>13

ReportInv == Inv /\ \A c \in Procs : Reporting(c)

(* A step is the process's own, or leaves it untouched. *)
LEMMA OneMoves ==
    ASSUME TypeOK, [Next]_vars, NEW c \in Procs
    PROVE  Step(c) \/ Crash(c) \/ Untouched(c)
  <1>1. ASSUME NEW d \in Procs \ {c}, Step(d) \/ Crash(d) PROVE Untouched(c)
    BY <1>1, StepTouchesOne
  <1>2. ASSUME NEW p \in Providers, Publish(p) PROVE Untouched(c)
    BY <1>2 DEF Publish, Untouched, crawl
  <1>3. UNCHANGED vars => Untouched(c) BY DEF vars, Untouched, crawl
  <1> QED BY <1>1, <1>2, <1>3 DEF Next

LEMMA ReportingNext ==
    ASSUME ReportInv, [Next]_vars, NEW c \in Procs
    PROVE  Reporting(c)'
  <1>1. TypeOK /\ Control(c) /\ Behind(c) /\ Reporting(c) BY DEF ReportInv, Inv
  <1>2. MarkersGrow BY InvMarkersGrow DEF ReportInv
  <1>3. CASE Step(c) \/ Crash(c)
    <2>1. Begins(c) \/ Proceeds(c) \/ Abandons(c) \/ Apply(c) \/ Ends(c)
      BY <1>1, <1>3, ReportStep
    <2> QED BY <1>1, <1>2, <2>1, ReportingBegins, ReportingProceeds, ReportingAbandons,
               ReportingApply, ReportingEnds
  <1>4. CASE Untouched(c) BY <1>1, <1>2, <1>4, ReportingUntouched
  <1>5. Step(c) \/ Crash(c) \/ Untouched(c) BY <1>1, OneMoves
  <1> QED BY <1>3, <1>4, <1>5

LEMMA ReportInvStep ==
    ASSUME ReportInv, [Next]_vars
    PROVE  ReportInv'
  <1>1. Inv' BY NextInv, StutterInv DEF ReportInv
  <1> QED BY <1>1, ReportingNext DEF ReportInv

LEMMA ReportInit == Init => ReportInv
  <1> SUFFICES ASSUME Init PROVE ReportInv OBVIOUS
  <1>1. \A c \in Procs : report[c] = <<>> /\ pc[c] = "idle" /\ Len(report[c]) = 0
    BY EmptySeq DEF Init
  <1>2. \A c \in Procs : Reporting(c)
    BY <1>1, ConfigFacts DEF Reporting, Entries, Working
  <1> QED BY <1>2, InitInv DEF ReportInv

LEMMA AuditCoversMarker ==
    ASSUME AuditIsPrefix, NEW p \in Providers
    PROVE  AuditedVersions(applied_segments[p]) = 1..LastApplied(p)
  <1> DEFINE row(v) == [segment_version |-> v, digest |-> Files[p][v]]
  <1>1. applied_segments[p] = {row(v) : v \in 1..LastApplied(p)} BY DEF AuditIsPrefix
  <1>2. \A v : row(v).segment_version = v OBVIOUS
  <1> HIDE DEF row
  <1> QED BY <1>1, <1>2 DEF AuditedVersions

(* Whatever failed after a segment was committed, and however many crawls   *)
(* share the database, a segment a report counts as applied is in the audit *)
(* trail of its provider.                                                   *)
THEOREM CrawlerReportNeverOverstates == Spec => []ReportNeverOverstates
  <1>1. ReportInv => ReportNeverOverstates
    <2> SUFFICES ASSUME ReportInv, NEW c \in Procs, NEW n \in DOMAIN report[c]
                 PROVE  report[c][n].segments_applied
                          \subseteq AuditedVersions(applied_segments[report[c][n].provider_id])
      BY DEF ReportNeverOverstates
    <2>1. TypeOK /\ AuditIsPrefix /\ Reporting(c) BY DEF ReportInv, Inv
    <2>2. n \in 1..Len(report[c]) /\ n \in 1..Len(Config)
      BY <2>1, ReportLength, LenProperties, ConfigFacts DEF Reporting
    <2>3. PICK p \in Providers : p = Config[n] BY <2>2, ConfigFacts
    <2> QED BY <2>1, <2>2, <2>3, AuditCoversMarker DEF Reporting, Entries
  <1> QED BY <1>1, ReportInit, ReportInvStep, PTL DEF Spec

---------------------------------------------------------------------------
(* One bad provider stops no other: where every exception is a             *)
(* CrawlerError and every index number fits the database, no crawl is      *)
(* aborted.                                                                *)

NothingEscapes ==
    /\ Unhandled = {}
    /\ \A p \in Providers : \A k \in DOMAIN Publications[p] : Fits(Publications[p][k].version)

Confined(c) ==
    /\ pc[c] # "aborted"
    /\ pc[c] \in Working => Fits(result[c].index_version)

LEMMA ConfinedFinish ==
    ASSUME TypeOK, NEW c \in Procs, NEW r, Finish(c, r)
    PROVE  Confined(c)'
  <1>1. CASE Len(report[c]) + 1 = Len(Config)
    <2>1. pc'[c] = "exited" BY <1>1 DEF TypeOK, Finish, Goto
    <2> QED BY <2>1 DEF Confined, Working
  <1>2. CASE Len(report[c]) + 1 # Len(Config)
    <2>1. pc'[c] = "manifest" /\ result'[c] = NewResult(Config[Len(report[c]) + 2])
      BY <1>2 DEF TypeOK, Finish, Goto
    <2>2. result'[c].index_version = None BY <2>1 DEF NewResult
    <2> QED BY <2>1, <2>2 DEF Confined, Fits
  <1> QED BY <1>1, <1>2

LEMMA ConfinedNext ==
    ASSUME NothingEscapes, Inv, [Next]_vars, NEW c \in Procs, Confined(c)
    PROVE  Confined(c)'
  <1>1. TypeOK /\ Control(c) /\ Behind(c) BY DEF Inv
  <1>2. CASE Begins(c)
    <2>1. result'[c].index_version = None /\ pc'[c] = "manifest"
      BY <1>2 DEF Begins, NewResult
    <2> QED BY <2>1 DEF Confined, Fits
  <1>3. CASE Proceeds(c)
    <2>1. pc'[c] \in Working /\ pc'[c] # "aborted" /\ Fits(result[c].index_version)
      BY <1>3 DEF Proceeds, Confined, Working
    <2>2. CASE result'[c].index_version = result[c].index_version
      BY <2>1, <2>2 DEF Confined, Fits
    <2>3. CASE \E q \in Providers : \E k \in DOMAIN Publications[q] :
                  result'[c].index_version = Publications[q][k].version
      <3>1. Fits(result'[c].index_version) BY <2>3 DEF NothingEscapes
      <3> QED BY <2>1, <3>1 DEF Confined, Fits
    <2> QED BY <1>3, <2>2, <2>3 DEF Proceeds
  <1>4. CASE Abandons(c)
    <2>1. ~Overflow(c) /\ ~Escape(c)
      BY DEF Overflow, Escape, NothingEscapes, Confined, Working
    <2>2. pc'[c] = "idle" BY <1>4, <2>1 DEF Abandons
    <2> QED BY <2>2 DEF Confined, Working
  <1>5. CASE Ends(c)
    <2>1. Finish(c, result[c]) BY <1>5 DEF Ends, Record, RecordFailedFails
    <2> QED BY <1>1, <2>1, ConfinedFinish
  <1>6. CASE Apply(c)
    <2>1. PICK v : v = Version(c) OBVIOUS
    <2>2. PICK applied : applied = [result[c] EXCEPT !.segments_applied = @ \union {v}]
      OBVIOUS
    <2>3. IF pending[c] = {v} THEN Finish(c, applied)
          ELSE result' = [result EXCEPT ![c] = applied] /\ Goto(c, "segment")
      BY <1>6, <2>1, <2>2 DEF Apply
    <2>4. CASE pending[c] = {v} BY <1>1, <2>3, <2>4, ConfinedFinish
    <2>5. CASE pending[c] # {v}
      <3>1. pc[c] \in Working /\ result[c] \in Result
        BY <1>1, <1>6 DEF Apply, Working, Control
      <3>2. result'[c] = applied /\ pc'[c] = "segment" BY <1>1, <2>3, <2>5 DEF TypeOK, Goto
      <3>3. applied.index_version = result[c].index_version BY <2>2, <3>1 DEF Result
      <3> QED BY <3>1, <3>2, <3>3 DEF Confined
    <2> QED BY <2>4, <2>5
  <1>7. CASE Untouched(c) BY <1>7 DEF Untouched, Confined
  <1>8. Step(c) \/ Crash(c) \/ Untouched(c) BY <1>1, OneMoves
  <1> QED BY <1>1, <1>2, <1>3, <1>4, <1>5, <1>6, <1>7, <1>8, ReportStep

(* A crawl that ran to its end has a result for each enabled provider, in   *)
(* configuration order, whatever the providers before it did.               *)
THEOREM CrawlerEveryProviderAttempted ==
    NothingEscapes /\ Spec => []EveryProviderAttempted
  <1> DEFINE AttemptInv == NothingEscapes /\ ReportInv /\ \A c \in Procs : Confined(c)
  <1>1. NothingEscapes /\ Init => AttemptInv
    <2>1. Init => \A c \in Procs : Confined(c) BY DEF Init, Confined, Working
    <2> QED BY <2>1, ReportInit
  <1>2. AttemptInv /\ [Next]_vars => AttemptInv'
    <2> SUFFICES ASSUME AttemptInv, [Next]_vars PROVE AttemptInv' OBVIOUS
    <2>1. \A c \in Procs : Confined(c)' BY ConfinedNext DEF ReportInv
    <2>2. NothingEscapes' BY DEF NothingEscapes, Fits
    <2> QED BY <2>1, <2>2, ReportInvStep
  <1>3. AttemptInv => EveryProviderAttempted
    <2> SUFFICES ASSUME AttemptInv, NEW c \in Procs, pc[c] \in {"exited", "aborted"}
                 PROVE  /\ Len(report[c]) = Len(Config)
                        /\ \A n \in DOMAIN report[c] : report[c][n].provider_id = Config[n]
      BY DEF EveryProviderAttempted
    <2>1. TypeOK /\ Reporting(c) /\ Confined(c) BY DEF ReportInv, Inv
    <2>2. DOMAIN report[c] = 1..Len(report[c]) BY <2>1, ReportLength, LenProperties
    <2> QED BY <2>1, <2>2 DEF Reporting, Entries, Confined
  <1> QED BY <1>1, <1>2, <1>3, PTL DEF Spec

---------------------------------------------------------------------------
(* The status in the database is the one reported, as long as one process  *)
(* at a time crawls and visits each provider once.                         *)

NoRepeats == \A m, n \in 1..Len(Config) : Config[m] = Config[n] => m = n

Agreed(c) ==
    /\ \A n \in 1..Len(report[c]) :
          report[c][n].status # "failed" \/ faults = 0 =>
              provider_state[Config[n]].last_status = report[c][n].status
    /\ pc[c] \in Working \ {"record"} => result[c].status = "ok"

(* The status one provider's row shows changes only in its own visit. *)
OthersKeepStatus(p) == \A q \in Providers \ {p} : provider_state'[q] = provider_state[q]

(* What went wrong stays counted. *)
LEMMA FaultsNeverFall ==
    ASSUME TypeOK, [Next]_vars
    PROVE  faults' = 0 => faults = 0
  <1>1. faults \in Nat BY BoundsAssumption DEF TypeOK
  <1> DEFINE Counted == faults' = faults \/ faults' = faults + 1
  <1> SUFFICES Counted BY <1>1
  <1>2. CASE UNCHANGED vars BY <1>2 DEF vars, world
  <1>3. ASSUME NEW p \in Providers, Publish(p) PROVE Counted BY <1>3 DEF Publish
  <1>4. ASSUME NEW c \in Procs, Step(c) \/ Crash(c) PROVE Counted
    <2>1. \A p, genuine : Fault(p) \/ Reply(p, genuine) \/ StorageFault => Counted
      BY DEF Fault, Reply, StorageFault
    <2>2. Start(c) \/ ReadState(c) \/ Apply(c) \/ Record(c) \/ Overflow(c) => Counted
      BY DEF Start, ReadState, Apply, Record, Overflow, world
    <2> HIDE DEF Counted
    <2>3. AcceptManifest(c) \/ RejectManifest(c) => Counted
      BY <2>1 DEF AcceptManifest, RejectManifest, ManifestServed
    <2>4. AcceptIndex(c) \/ RejectIndex(c) => Counted
      BY <2>1 DEF AcceptIndex, RejectIndex, IndexServed
    <2>5. AcceptSegment(c) \/ RejectSegment(c) \/ FetchFails(c) => Counted
      BY <2>1 DEF AcceptSegment, RejectSegment, SegmentServed, FetchFails
    <2>6. ApplyFails(c) \/ RecordUpToDateFails(c) \/ RecordFailedFails(c) => Counted
      BY <2>1 DEF ApplyFails, RecordUpToDateFails, RecordFailedFails
    <2>7. Escape(c) => Counted BY <2>1 DEF Escape
    <2>8. Crash(c) => Counted BY DEF Crash, Counted
    <2> QED BY <1>4, <2>2, <2>3, <2>4, <2>5, <2>6, <2>7, <2>8 DEF Step
  <1> HIDE DEF Counted
  <1>5. CASE \E p \in Providers : Publish(p) BY <1>3, <1>5
  <1>6. CASE \E c \in Procs : Step(c) \/ Crash(c) BY <1>4, <1>6
  <1> QED BY <1>2, <1>5, <1>6 DEF Next

LEMMA WritersSetStatus ==
    ASSUME TypeOK, NEW c \in Procs, Control(c), NEW p \in Providers, p = Provider(c)
    PROVE  /\ Apply(c) => /\ provider_state'[p].last_status = "ok"
                          /\ OthersKeepStatus(p)
           /\ Record(c) => /\ provider_state'[p].last_status = result[c].status
                           /\ OthersKeepStatus(p)
  <1>1. provider_state \in [Providers -> States] BY SameOperators DEF TypeOK
  <1>2. ASSUME Apply(c)
        PROVE  provider_state'[p].last_status = "ok" /\ OthersKeepStatus(p)
    <2>1. PICK v, iv : provider_state' = [provider_state EXCEPT ![p] = AdvanceMarker(@, v, iv)]
      BY <1>2, SameOperators DEF Apply, DB!ApplySegment
    <2>2. provider_state'[p] = AdvanceMarker(provider_state[p], v, iv) BY <1>1, <2>1
    <2>3. provider_state'[p].last_status = "ok" BY <2>2 DEF AdvanceMarker
    <2>4. OthersKeepStatus(p) BY <1>1, <2>1 DEF OthersKeepStatus
    <2> QED BY <2>3, <2>4
  <1>3. ASSUME Record(c)
        PROVE  provider_state'[p].last_status = result[c].status /\ OthersKeepStatus(p)
    <2>1. PICK iv : provider_state'
              = [provider_state EXCEPT ![p] = NoteResult(@, result[c].status, iv)]
      BY <1>3, SameOperators DEF Record, DB!RecordCrawlResult
    <2>2. provider_state'[p] = NoteResult(provider_state[p], result[c].status, iv)
      BY <1>1, <2>1
    <2>3. provider_state'[p].last_status = result[c].status BY <2>2 DEF NoteResult
    <2>4. OthersKeepStatus(p) BY <1>1, <2>1 DEF OthersKeepStatus
    <2> QED BY <2>3, <2>4
  <1> QED BY <1>2, <1>3

(* Results of earlier visits are about other providers. *)
LEMMA EarlierStay ==
    ASSUME NoRepeats, TypeOK, NEW c \in Procs, Control(c), pc[c] \in Working,
           NEW p \in Providers, p = Provider(c), OthersKeepStatus(p),
           NEW n \in 1..Len(report[c])
    PROVE  provider_state'[Config[n]] = provider_state[Config[n]]
  <1>1. Len(report[c]) \in Nat /\ Len(Config) \in Nat /\ Len(report[c]) < Len(Config)
    BY ReportLength, ConfigFacts DEF Control
  <1>2. n \in 1..Len(Config) /\ Len(report[c]) + 1 \in 1..Len(Config) /\ n # Len(report[c]) + 1
    BY <1>1
  <1>3. Config[n] \in Providers /\ Config[n] # p BY <1>2, ConfigFacts DEF NoRepeats, Provider
  <1> QED BY <1>3 DEF OthersKeepStatus

LEMMA AgreedFinish ==
    ASSUME NoRepeats, TypeOK, NEW c \in Procs, Control(c), Agreed(c), pc[c] \in Working,
           NEW p \in Providers, p = Provider(c), OthersKeepStatus(p),
           NEW r \in Result, Finish(c, r),
           faults' = 0 => faults = 0,
           r.status # "failed" \/ faults' = 0 => provider_state'[p].last_status = r.status
    PROVE  Agreed(c)'
  <1>1. report[c] \in Seq(Result) /\ Len(report[c]) \in Nat BY ReportLength
  <1>2. PICK m \in Nat : m = Len(report[c]) BY <1>1
  <1>3. report'[c] = Append(report[c], r) BY DEF TypeOK, Finish
  <1>4. /\ Len(report'[c]) = m + 1 /\ report'[c][m + 1] = r
        /\ \A n \in 1..m : report'[c][n] = report[c][n]
    BY <1>1, <1>2, <1>3, AppendProperties
  <1>5. p = Config[m + 1] BY <1>2 DEF Provider
  <1>6. ASSUME NEW n \in 1..(m + 1), report'[c][n].status # "failed" \/ faults' = 0
        PROVE  provider_state'[Config[n]].last_status = report'[c][n].status
    <2>1. CASE n = m + 1 BY <1>4, <1>5, <1>6, <2>1
    <2>2. CASE n # m + 1
      <3>1. n \in 1..m BY <2>2
      <3>2. provider_state'[Config[n]] = provider_state[Config[n]] BY <1>2, <3>1, EarlierStay
      <3> QED BY <1>2, <1>4, <1>6, <3>1, <3>2 DEF Agreed
    <2> QED BY <2>1, <2>2
  <1>7. CASE m + 1 = Len(Config)
    <2>1. pc'[c] = "exited" BY <1>2, <1>7 DEF TypeOK, Finish, Goto
    <2> QED BY <1>4, <1>6, <2>1 DEF Agreed, Working
  <1>8. CASE m + 1 # Len(Config)
    <2>1. pc'[c] = "manifest" /\ result'[c] = NewResult(Config[Len(report[c]) + 2])
      BY <1>2, <1>8 DEF TypeOK, Finish, Goto
    <2>2. result'[c].status = "ok" BY <2>1 DEF NewResult
    <2> QED BY <1>4, <1>6, <2>1, <2>2 DEF Agreed
  <1> QED BY <1>7, <1>8

LEMMA AgreedNext ==
    ASSUME Sole, NoRepeats, Inv, [Next]_vars, NEW c \in Procs, Agreed(c)
    PROVE  Agreed(c)'
  <1>1. TypeOK /\ Control(c) /\ Behind(c) /\ (faults' = 0 => faults = 0)
    BY FaultsNeverFall DEF Inv
  <1>2. CASE Begins(c)
    <2>1. /\ result'[c].status = "ok" /\ Len(report'[c]) = 0
      BY <1>2, EmptySeq DEF Begins, NewResult
    <2> QED BY <2>1 DEF Agreed
  <1>3. CASE Proceeds(c)
    <2>1. /\ report'[c] = report[c] /\ provider_state' = provider_state
          /\ pc'[c] # "record" => result'[c].status = result[c].status
          /\ pc[c] \in Working
      BY <1>3 DEF Proceeds, tables
    <2>2. pc[c] = "record" => pc'[c] = "record" BY <1>3 DEF Proceeds
    <2>3. pc'[c] \in Working \ {"record"} => result'[c].status = "ok"
      BY <2>1, <2>2 DEF Agreed
    <2> QED BY <1>1, <2>1, <2>3 DEF Agreed
  <1>4. CASE Abandons(c)
    <2>1. /\ report'[c] = report[c] /\ provider_state' = provider_state
          /\ pc'[c] \notin Working
      BY <1>4 DEF Abandons, tables, Working
    <2> QED BY <1>1, <2>1 DEF Agreed
  <1>5. CASE Ends(c)
    <2>1. pc[c] = "record" /\ pc[c] \in Working /\ Finish(c, result[c])
      BY <1>5 DEF Ends, Record, RecordFailedFails, Working
    <2>2. result[c] \in Result BY <1>1, <2>1 DEF Control
    <2>3. PICK p \in Providers : p = Provider(c) BY <1>1, <2>1, ProviderOf
    <2>4. CASE Record(c)
      BY <1>1, <2>1, <2>2, <2>3, <2>4, WritersSetStatus, AgreedFinish
    <2>5. CASE RecordFailedFails(c)
      <3>1. result[c].status = "failed" /\ OthersKeepStatus(p) /\ faults' # 0
        BY <1>1, <2>5 DEF RecordFailedFails, StorageFault, TypeOK, tables, OthersKeepStatus
      <3> QED BY <1>1, <2>1, <2>2, <2>3, <3>1, AgreedFinish
    <2> QED BY <1>5, <2>4, <2>5 DEF Ends
  <1>6. CASE Apply(c)
    <2>1. pc[c] = "apply" /\ pc[c] \in Working /\ result[c] \in Result /\ result[c].status = "ok"
      BY <1>1, <1>6 DEF Apply, Working, Control, Agreed
    <2>2. PICK p \in Providers : p = Provider(c) BY <1>1, <2>1, ProviderOf
    <2>3. PICK v : v = Version(c) OBVIOUS
    <2>4. provider_state'[p].last_status = "ok" /\ OthersKeepStatus(p)
      BY <1>1, <1>6, <2>2, WritersSetStatus
    <2>5. PICK applied : applied = [result[c] EXCEPT !.segments_applied = @ \union {v}]
      OBVIOUS
    <2>6. applied \in Result /\ applied.status = "ok"
      <3>1. v \in Versions BY <1>1, <1>6, <2>2, <2>3, ApplyFacts DEF TypeOK
      <3> QED BY <2>1, <2>5, <3>1 DEF Result
    <2>7. IF pending[c] = {v} THEN Finish(c, applied)
          ELSE result' = [result EXCEPT ![c] = applied] /\ Goto(c, "segment") /\ UNCHANGED report
      BY <1>6, <2>3, <2>5 DEF Apply
    <2>8. CASE pending[c] = {v}
      BY <1>1, <2>1, <2>2, <2>4, <2>6, <2>7, <2>8, AgreedFinish
    <2>9. CASE pending[c] # {v}
      <3>1. result'[c] = applied /\ report'[c] = report[c]
        BY <1>1, <2>7, <2>9 DEF TypeOK
      <3>2. \A n \in 1..Len(report[c]) : provider_state'[Config[n]] = provider_state[Config[n]]
        BY <1>1, <2>1, <2>2, <2>4, EarlierStay
      <3> QED BY <1>1, <2>6, <3>1, <3>2 DEF Agreed
    <2> QED BY <2>8, <2>9
  <1>7. CASE ~Step(c) /\ ~Crash(c)
    <2>1. UNCHANGED tables
      <3>1. \A d \in Procs : d = c BY DEF Sole
      <3>2. (\E p \in Providers : Publish(p)) \/ UNCHANGED vars BY <1>7, <3>1 DEF Next
      <3> QED BY <3>2 DEF Publish, vars
    <2>2. Untouched(c) BY <1>1, <1>7, OneMoves
    <2> QED BY <1>1, <2>1, <2>2 DEF tables, Untouched, Agreed
  <1> QED BY <1>1, <1>2, <1>3, <1>4, <1>5, <1>6, <1>7, ReportStep

(* A result and the status stored for its provider do not differ, but for   *)
(* a failure whose record a fault of the database has prevented.            *)
THEOREM CrawlerStatusAgreesWithReport ==
    Sole /\ NoRepeats /\ Spec => []StatusAgreesWithReport
  <1> DEFINE AgreeInv == Sole /\ NoRepeats /\ ReportInv /\ \A c \in Procs : Agreed(c)
  <1>1. Sole /\ NoRepeats /\ Init => AgreeInv
    <2>1. Init => \A c \in Procs : pc[c] = "idle" /\ Len(report[c]) = 0
      BY EmptySeq DEF Init
    <2>2. Init => \A c \in Procs : Agreed(c) BY <2>1 DEF Agreed, Working
    <2> QED BY <2>2, ReportInit
  <1>2. AgreeInv /\ [Next]_vars => AgreeInv'
    <2> SUFFICES ASSUME AgreeInv, [Next]_vars PROVE AgreeInv' OBVIOUS
    <2>1. \A c \in Procs : Agreed(c)' BY AgreedNext DEF ReportInv
    <2>2. Sole' /\ NoRepeats' BY DEF Sole, NoRepeats
    <2> QED BY <2>1, <2>2, ReportInvStep
  <1>3. AgreeInv => StatusAgreesWithReport
    <2> SUFFICES ASSUME AgreeInv, NEW c \in Procs, NEW n \in DOMAIN report[c],
                        report[c][n].status # "failed" \/ faults = 0
                 PROVE  provider_state[report[c][n].provider_id].last_status
                          = report[c][n].status
      BY DEF StatusAgreesWithReport
    <2>1. TypeOK /\ Reporting(c) /\ Agreed(c) BY DEF ReportInv, Inv
    <2>2. n \in 1..Len(report[c]) BY <2>1, ReportLength, LenProperties
    <2> QED BY <2>1, <2>2 DEF Reporting, Entries, Agreed
  <1> QED BY <1>1, <1>2, <1>3, PTL DEF Spec

---------------------------------------------------------------------------
(* Index versions.  A provider that gives each index at least the number   *)
(* of the segments it lists, and never a smaller number than before, is    *)
(* never taken for one that rolled back.                                   *)

Numbered ==
    \A p \in Providers : \A k \in DOMAIN Publications[p] :
        \A v \in Publications[p][k].segments : v <= Publications[p][k].version
Rising ==
    \A p \in Providers : \A j, k \in DOMAIN Publications[p] :
        j <= k => Publications[p][j].version <= Publications[p][k].version

(* A process works from an index that was published ... *)
Offered(c) ==
    pc[c] \in {"segment", "apply"} =>
        \E k \in 1..published[Provider(c)] : index[c] = Publications[Provider(c)][k]

(* ... so that a published index covers the marker. *)
Within(p) ==
    LastApplied(p) = 0 \/ \E k \in 1..published[p] : LastApplied(p) <= Publications[p][k].version

LEMMA PublishedGrows ==
    ASSUME TypeOK, [Next]_vars
    PROVE  \A p \in Providers : /\ published[p] \in Nat /\ published'[p] \in Nat
                                /\ published'[p] >= published[p]
                                /\ 1..published[p] \subseteq 1..published'[p]
  <1>1. \A p \in Providers : published[p] \in Nat BY DEF TypeOK
  <1>2. ASSUME NEW q \in Providers, Publish(q)
        PROVE  \A p \in Providers : published'[p] \in {published[p], published[p] + 1}
    BY <1>2 DEF Publish, TypeOK
  <1>3. ASSUME NEW c \in Procs, Step(c) \/ Crash(c)
        PROVE  published' = published
    <2>1. CASE Start(c) \/ ReadState(c) \/ Apply(c) \/ Record(c)
      BY <2>1 DEF Start, ReadState, Apply, Record, world
    <2>2. CASE AcceptManifest(c) \/ AcceptIndex(c) \/ AcceptSegment(c)
      BY <2>2 DEF AcceptManifest, AcceptIndex, AcceptSegment
    <2>3. CASE RejectManifest(c) \/ RejectIndex(c) \/ RejectSegment(c) \/ FetchFails(c)
      BY <2>3 DEF RejectManifest, RejectIndex, RejectSegment, FetchFails, Failed
    <2>4. CASE ApplyFails(c) \/ RecordUpToDateFails(c) \/ RecordFailedFails(c)
      BY <2>4 DEF ApplyFails, RecordUpToDateFails, RecordFailedFails, Failed
    <2>5. CASE Overflow(c) \/ Escape(c) \/ Crash(c)
      BY <2>5 DEF Overflow, Escape, Crash, Stop
    <2> QED BY <1>3, <2>1, <2>2, <2>3, <2>4, <2>5 DEF Step
  <1>4. UNCHANGED vars => published' = published BY DEF vars, world
  <1>5. \A p \in Providers : published'[p] \in {published[p], published[p] + 1}
    BY <1>2, <1>3, <1>4 DEF Next
  <1> QED BY <1>1, <1>5

LEMMA OfferedUntouched ==
    ASSUME TypeOK, [Next]_vars, NEW c \in Procs, Control(c), Offered(c), Untouched(c)
    PROVE  Offered(c)'
  <1> SUFFICES ASSUME pc[c] \in {"segment", "apply"} PROVE Offered(c)'
    BY DEF Offered, Untouched
  <1>1. PICK p \in Providers : p = Provider(c) BY ProviderOf DEF Working
  <1>2. Provider(c)' = p /\ index'[c] = index[c] BY <1>1 DEF Untouched, Provider
  <1>3. PICK k \in 1..published[p] : index[c] = Publications[p][k] BY <1>1 DEF Offered
  <1>4. k \in 1..published'[p] BY <1>1, <1>3, PublishedGrows
  <1> QED BY <1>2, <1>3, <1>4 DEF Offered

LEMMA OfferedStep ==
    ASSUME TypeOK, NEW c \in Procs, Control(c), Offered(c), Step(c) \/ Crash(c)
    PROVE  Offered(c)'
  <1>1. CASE Start(c) \/ AcceptManifest(c) \/ ReadState(c)
    <2>1. pc'[c] \in {"manifest", "state", "index"}
      BY <1>1 DEF TypeOK, Start, AcceptManifest, ReadState, Goto
    <2> QED BY <2>1 DEF Offered
  <1>2. CASE RejectManifest(c) \/ RejectIndex(c) \/ RejectSegment(c) \/ FetchFails(c)
             \/ ApplyFails(c) \/ RecordUpToDateFails(c)
    <2>1. pc'[c] = "record"
      BY <1>2 DEF TypeOK, RejectManifest, RejectIndex, RejectSegment, FetchFails,
                  ApplyFails, RecordUpToDateFails, Failed, Goto
    <2> QED BY <2>1 DEF Offered
  <1>3. CASE Overflow(c) \/ Escape(c) \/ Crash(c)
    <2>1. pc'[c] \in {"aborted", "idle"}
      BY <1>3 DEF TypeOK, Overflow, Escape, Crash, Stop, Goto
    <2> QED BY <2>1 DEF Offered
  <1>4. CASE Record(c) \/ RecordFailedFails(c)
    <2>1. pc'[c] \in {"exited", "manifest"}
      BY <1>4 DEF TypeOK, Record, RecordFailedFails, Finish, Goto
    <2> QED BY <2>1 DEF Offered
  <1>5. CASE AcceptSegment(c) \/ (Apply(c) /\ pending[c] # {Version(c)})
    <2>1. /\ pc[c] \in {"segment", "apply"} /\ pc'[c] \in {"segment", "apply"}
          /\ index'[c] = index[c] /\ report' = report /\ published' = published
      BY <1>5 DEF TypeOK, AcceptSegment, SegmentServed, Apply, world, Goto
    <2>2. Provider(c)' = Provider(c) BY <2>1 DEF Provider
    <2> QED BY <2>1, <2>2 DEF Offered
  <1>6. CASE Apply(c) /\ pending[c] = {Version(c)}
    <2>1. pc'[c] \in {"exited", "manifest"} BY <1>6 DEF TypeOK, Apply, Finish, Goto
    <2> QED BY <2>1 DEF Offered
  <1>7. CASE AcceptIndex(c)
    <2>1. PICK q \in Providers : \E k \in DOMAIN Publications[q] :
              /\ IndexServed(c, q, k)
              /\ VerifyIndex(Publications[q][k], manifest[c], last[c])
              /\ index' = [index EXCEPT ![c] = Publications[q][k]]
              /\ UNCHANGED <<published, report>>
      BY <1>7 DEF AcceptIndex
    <2>2. PICK k \in DOMAIN Publications[q] :
              /\ IndexServed(c, q, k)
              /\ VerifyIndex(Publications[q][k], manifest[c], last[c])
              /\ index' = [index EXCEPT ![c] = Publications[q][k]]
              /\ UNCHANGED <<published, report>>
      BY <2>1
    <2>3. pc[c] = "index" /\ k \in 1..published[q] BY <2>2 DEF IndexServed
    <2>4. q = Provider(c)
      BY <2>2, <2>3, ProvidersAssumption DEF Control, VerifyIndex, Manifest
    <2>5. /\ index'[c] = Publications[q][k] /\ Provider(c)' = q /\ published' = published
      BY <2>2, <2>4 DEF TypeOK, Provider
    <2> QED BY <2>3, <2>5 DEF Offered
  <1> QED BY <1>1, <1>2, <1>3, <1>4, <1>5, <1>6, <1>7 DEF Step

LEMMA WithinNext ==
    ASSUME Numbered, Inv, \A c \in Procs : Offered(c), [Next]_vars,
           NEW p \in Providers, Within(p)
    PROVE  Within(p)'
  <1>1. 1..published[p] \subseteq 1..published'[p] BY PublishedGrows DEF Inv
  <1>2. CASE LastApplied(p)' = LastApplied(p) BY <1>1, <1>2 DEF Within
  <1>3. CASE LastApplied(p)' # LastApplied(p)
    <2>1. PICK c \in Procs : Apply(c) BY <1>3, OnlyApplyWrites
    <2>2. TypeOK /\ Control(c) /\ Behind(c) /\ Offered(c) BY DEF Inv
    <2>3. PICK r : r = Provider(c) OBVIOUS
    <2>4. p = r BY <1>3, <2>1, <2>2, <2>3, ApplyFacts
    <2>5. PICK v : v = Version(c) OBVIOUS
    <2>6. LastApplied(p)' = v /\ v \in pending[c]
      BY <1>3, <2>1, <2>2, <2>3, <2>4, <2>5, ApplyFacts
    <2>7. pc[c] = "apply" /\ v \in index[c].segments
      BY <2>1, <2>2, <2>6 DEF Apply, Control
    <2>8. PICK k \in 1..published[p] : index[c] = Publications[p][k]
      BY <2>2, <2>3, <2>4, <2>7 DEF Offered
    <2>9. k \in DOMAIN Publications[p]
      <3>1. /\ published[p] \in Nat /\ published[p] <= Len(Publications[p])
            /\ DOMAIN Publications[p] = 1..Len(Publications[p]) /\ Len(Publications[p]) \in Nat
        BY <2>2, ProvidersAssumption, LenProperties DEF TypeOK
      <3> QED BY <3>1
    <2>10. v <= Publications[p][k].version BY <2>7, <2>8, <2>9 DEF Numbered
    <2> QED BY <1>1, <2>6, <2>8, <2>10 DEF Within
  <1> QED BY <1>2, <1>3

(* The index a provider currently publishes passes the rollback check,      *)
(* however many crawls of whatever age are under way.                       *)
THEOREM CrawlerCurrentIndexIsAcceptable ==
    Numbered /\ Rising /\ Spec => []CurrentIndexIsAcceptable
  <1> DEFINE OfferInv == /\ Numbered /\ Rising /\ Inv
                         /\ \A c \in Procs : Offered(c)
                         /\ \A p \in Providers : Within(p)
  <1>1. Numbered /\ Rising /\ Init => OfferInv
    <2>1. Init => \A c \in Procs : Offered(c) BY DEF Init, Offered
    <2>2. Init => \A p \in Providers : Within(p)
      <3>1. Init => provider_state = [p \in Providers |-> None] BY DEF Init, DB!Init
      <3> QED BY <3>1, SameOperators DEF Within, Applied
    <2> QED BY <2>1, <2>2, InitInv
  <1>2. OfferInv /\ [Next]_vars => OfferInv'
    <2> SUFFICES ASSUME OfferInv, [Next]_vars PROVE OfferInv' OBVIOUS
    <2>1. Inv' BY NextInv, StutterInv
    <2>2. \A p \in Providers : Within(p)' BY WithinNext
    <2>3. ASSUME NEW c \in Procs PROVE Offered(c)'
      <3>1. TypeOK /\ Control(c) BY DEF Inv
      <3> QED BY <3>1, OneMoves, OfferedStep, OfferedUntouched
    <2>4. Numbered' /\ Rising' BY DEF Numbered, Rising
    <2> QED BY <2>1, <2>2, <2>3, <2>4
  <1>3. OfferInv => CurrentIndexIsAcceptable
    <2> SUFFICES ASSUME OfferInv, NEW p \in Providers, published[p] > 0
                 PROVE  VerifyIndex(Publications[p][published[p]], Manifest(p), LastApplied(p))
      BY DEF CurrentIndexIsAcceptable
    <2>1. TypeOK /\ Within(p) BY DEF Inv
    <2>2. PICK n \in Nat \ {0} : n = published[p] BY <2>1 DEF TypeOK
    <2>3. /\ n <= Len(Publications[p]) /\ Len(Publications[p]) \in Nat
          /\ DOMAIN Publications[p] = 1..Len(Publications[p])
      BY <2>1, <2>2, ProvidersAssumption, LenProperties DEF TypeOK
    <2>4. n \in DOMAIN Publications[p] BY <2>2, <2>3
    <2>5. /\ Publications[p][n].provider_id = p /\ Publications[p][n].key_id = KeyOf[p]
          /\ Publications[p][n].version \in Nat
      BY <2>4, ProvidersAssumption, Documents DEF Versions
    <2>6. LastApplied(p) \in Nat BY <2>1, Typed
    <2>7. LastApplied(p) <= Publications[p][n].version
      <3>1. CASE LastApplied(p) = 0 BY <2>5, <3>1
      <3>2. CASE LastApplied(p) # 0
        <4>1. PICK k \in 1..n : LastApplied(p) <= Publications[p][k].version
          BY <2>1, <2>2, <3>2 DEF Within
        <4>2. k \in DOMAIN Publications[p] /\ k <= n BY <2>2, <2>3
        <4>3. Publications[p][k].version <= Publications[p][n].version
          BY <2>4, <4>2 DEF Rising
        <4>4. Publications[p][k].version \in Nat BY <4>2, Documents DEF Versions
        <4> QED BY <2>5, <2>6, <4>1, <4>3, <4>4
      <3> QED BY <3>1, <3>2
    <2> QED BY <2>2, <2>5, <2>6, <2>7 DEF VerifyIndex, Manifest
  <1> QED BY <1>1, <1>2, <1>3, PTL DEF Spec

(* With one process at a time the index version the store remembers, and   *)
(* the one about to be stored, cover the marker.                           *)

Covers(c) ==
    /\ pc[c] \in {"manifest", "state", "index"} => result[c].index_version = None
    /\ pc[c] \in {"segment", "apply", "record"} =>
          \/ result[c].index_version = None
          \/ result[c].index_version >= LastApplied(Provider(c))
    /\ pc[c] \in {"segment", "apply"} => \A v \in index[c].segments : v <= index[c].version

Covered(p) ==
    LastApplied(p) > 0 =>
        /\ provider_state[p].last_index_version # None
        /\ provider_state[p].last_index_version >= LastApplied(p)

LEMMA SameProvider ==
    ASSUME NEW c \in Procs, report'[c] = report[c], NEW p \in Providers, p = Provider(c),
           LastApplied(p)' = LastApplied(p)
    PROVE  Provider(c)' = p /\ LastApplied(Provider(c))' = LastApplied(p)
  <1>1. Provider(c)' = p BY DEF Provider
  <1> QED BY <1>1 DEF LastApplied, DB!LastApplied

LEMMA CoversUntouched ==
    ASSUME TypeOK, NEW c \in Procs, Control(c), Covers(c), Untouched(c),
           \A p \in Providers : LastApplied(p)' = LastApplied(p)
    PROVE  Covers(c)'
  <1>1. /\ pc'[c] = pc[c] /\ result'[c] = result[c] /\ index'[c] = index[c]
        /\ report'[c] = report[c]
    BY DEF Untouched
  <1>2. CASE pc[c] \in Working
    <2>1. PICK p \in Providers : p = Provider(c) BY <1>2, ProviderOf
    <2>2. LastApplied(Provider(c))' = LastApplied(Provider(c)) BY <1>1, <2>1, SameProvider
    <2> QED BY <1>1, <2>2 DEF Covers
  <1>3. CASE pc[c] \notin Working BY <1>1, <1>3 DEF Covers, Working
  <1> QED BY <1>2, <1>3

LEMMA CoversFinish ==
    ASSUME TypeOK, NEW c \in Procs, NEW r, Finish(c, r)
    PROVE  Covers(c)'
  <1>1. CASE Len(report[c]) + 1 = Len(Config)
    <2>1. pc'[c] = "exited" BY <1>1 DEF TypeOK, Finish, Goto
    <2> QED BY <2>1 DEF Covers
  <1>2. CASE Len(report[c]) + 1 # Len(Config)
    <2>1. pc'[c] = "manifest" /\ result'[c] = NewResult(Config[Len(report[c]) + 2])
      BY <1>2 DEF TypeOK, Finish, Goto
    <2>2. result'[c].index_version = None BY <2>1 DEF NewResult
    <2> QED BY <2>1, <2>2 DEF Covers
  <1> QED BY <1>1, <1>2

LEMMA CoversIndex ==
    ASSUME Numbered, TypeOK, NEW c \in Procs, Control(c), Fresh(c), AcceptIndex(c),
           \A p \in Providers : LastApplied(p)' = LastApplied(p)
    PROVE  Covers(c)'
  <1>1. PICK q \in Providers : \E k \in DOMAIN Publications[q] :
            LET chosen == Pending(Publications[q][k].segments, last[c])
            IN  /\ IndexServed(c, q, k)
                /\ VerifyIndex(Publications[q][k], manifest[c], last[c])
                /\ index' = [index EXCEPT ![c] = Publications[q][k]]
                /\ result' = [result EXCEPT ![c] =
                       [result[c] EXCEPT !.index_version = Publications[q][k].version,
                           !.status = IF chosen = {} THEN "up-to-date" ELSE @]]
                /\ Goto(c, IF chosen = {} THEN "record" ELSE "segment")
                /\ UNCHANGED report
    BY DEF AcceptIndex
  <1>2. PICK k \in DOMAIN Publications[q] :
            LET chosen == Pending(Publications[q][k].segments, last[c])
            IN  /\ IndexServed(c, q, k)
                /\ VerifyIndex(Publications[q][k], manifest[c], last[c])
                /\ index' = [index EXCEPT ![c] = Publications[q][k]]
                /\ result' = [result EXCEPT ![c] =
                       [result[c] EXCEPT !.index_version = Publications[q][k].version,
                           !.status = IF chosen = {} THEN "up-to-date" ELSE @]]
                /\ Goto(c, IF chosen = {} THEN "record" ELSE "segment")
                /\ UNCHANGED report
    BY <1>1
  <1>3. PICK n : n = Publications[q][k].version OBVIOUS
  <1>4. PICK status : status = IF Pending(Publications[q][k].segments, last[c]) = {}
                               THEN "up-to-date" ELSE result[c].status
    OBVIOUS
  <1>5. /\ pc[c] = "index" /\ n >= last[c] /\ report'[c] = report[c]
        /\ Publications[q][k].provider_id = manifest[c].provider_id
        /\ pc'[c] \in {"record", "segment"} /\ index'[c] = Publications[q][k]
    BY <1>2, <1>3 DEF TypeOK, IndexServed, VerifyIndex, Goto
  <1>6. result[c] \in Result BY <1>5 DEF Control, Working
  <1>7. result'[c].index_version = n
    <2>1. PICK empty \in BOOLEAN : empty = (Pending(Publications[q][k].segments, last[c]) = {})
      OBVIOUS
    <2>2. result' = [result EXCEPT ![c] =
             [result[c] EXCEPT !.index_version = n, !.status = IF empty THEN "up-to-date" ELSE @]]
      BY <1>2, <1>3, <2>1
    <2> QED BY <1>6, <2>2 DEF TypeOK, Result
  <1>8. PICK p \in Providers : p = Provider(c) BY <1>5, ProviderOf DEF Working
  <1>9. LastApplied(Provider(c))' = LastApplied(p) BY <1>5, <1>8, SameProvider
  <1>10. last[c] = LastApplied(p) BY <1>5, <1>8 DEF Fresh
  <1>11. \A v \in index'[c].segments : v <= index'[c].version
    BY <1>2, <1>5 DEF Numbered
  <1> QED BY <1>5, <1>7, <1>9, <1>10, <1>11 DEF Covers

(* Every other step that writes nothing. *)
LEMMA CoversElse ==
    ASSUME TypeOK, NEW c \in Procs, Control(c), Covers(c), Step(c) \/ Crash(c),
           ~AcceptIndex(c), ~Apply(c), ~Ends(c),
           \A p \in Providers : LastApplied(p)' = LastApplied(p)
    PROVE  Covers(c)'
  <1>1. CASE Start(c)
    <2>1. pc'[c] = "manifest" /\ result'[c] = NewResult(Config[1])
      BY <1>1 DEF TypeOK, Start, Goto
    <2>2. result'[c].index_version = None BY <2>1 DEF NewResult
    <2> QED BY <2>1, <2>2 DEF Covers
  <1>2. CASE AcceptManifest(c) \/ ReadState(c)
    <2>1. /\ pc[c] \in {"manifest", "state"} /\ pc'[c] \in {"state", "index"} /\ result' = result
      BY <1>2 DEF TypeOK, AcceptManifest, ManifestServed, ReadState, Goto
    <2> QED BY <2>1 DEF Covers
  <1>3. CASE AcceptSegment(c)
    <2>1. /\ pc[c] = "segment" /\ pc'[c] = "apply"
          /\ UNCHANGED <<index, result, report>>
      BY <1>3 DEF TypeOK, AcceptSegment, SegmentServed, Goto
    <2>2. PICK p \in Providers : p = Provider(c) BY <2>1, ProviderOf DEF Working
    <2>3. LastApplied(Provider(c))' = LastApplied(Provider(c)) BY <2>1, <2>2, SameProvider
    <2> QED BY <2>1, <2>3 DEF Covers
  <1>4. CASE RejectManifest(c) \/ RejectIndex(c) \/ RejectSegment(c) \/ FetchFails(c)
             \/ ApplyFails(c) \/ RecordUpToDateFails(c)
    <2>1. Failed(c) /\ pc[c] \in Working
      BY <1>4 DEF RejectManifest, ManifestServed, RejectIndex, IndexServed, RejectSegment,
                  SegmentServed, FetchFails, ApplyFails, RecordUpToDateFails, Working
    <2>2. /\ pc'[c] = "record" /\ report'[c] = report[c]
          /\ result'[c] = [result[c] EXCEPT !.status = "failed"]
      BY <2>1 DEF TypeOK, Failed, Goto
    <2>3. result'[c].index_version = result[c].index_version
      BY <2>1, <2>2 DEF Control, Result
    <2>4. PICK p \in Providers : p = Provider(c) BY <2>1, ProviderOf
    <2>5. LastApplied(Provider(c))' = LastApplied(Provider(c)) BY <2>2, <2>4, SameProvider
    <2> QED BY <2>1, <2>2, <2>3, <2>5 DEF Covers, Working
  <1>5. CASE Overflow(c) \/ Escape(c) \/ Crash(c)
    <2>1. pc'[c] \in {"aborted", "idle"}
      BY <1>5 DEF TypeOK, Overflow, Escape, Crash, Stop, Goto
    <2> QED BY <2>1 DEF Covers
  <1> QED BY <1>1, <1>2, <1>3, <1>4, <1>5 DEF Step, Ends

LEMMA CoveredApply ==
    ASSUME Inv, NEW c \in Procs, Fresh(c), Covers(c), Apply(c),
           \A p \in Providers : Covered(p)
    PROVE  Covers(c)' /\ \A p \in Providers : Covered(p)'
  <1>1. TypeOK /\ Control(c) /\ Behind(c) BY DEF Inv
  <1>2. PICK p : p = Provider(c) OBVIOUS
  <1>3. PICK v : v = Version(c) OBVIOUS
  <1>4. p \in Providers BY <1>1, <1>2, ApplyFacts
  <1>5. /\ LastApplied(p)' = v /\ v \in pending[c]
        /\ \A q \in Providers \ {p} : LastApplied(q)' = LastApplied(q)
    BY <1>1, <1>2, <1>3, AppliesNext, ApplyFacts
  <1>6. /\ pc[c] = "apply" /\ index[c] \in IndexPayload /\ v <= index[c].version
        /\ result[c].index_version = index[c].version /\ result[c] \in Result
    BY <1>1, <1>5 DEF Apply, Control, Covers, Working
  <1>7. index[c].version \in Versions BY <1>6 DEF IndexPayload
  <1>8. /\ provider_state'[p].last_index_version = index[c].version
        /\ \A q \in Providers \ {p} : provider_state'[q] = provider_state[q]
    <2>1. provider_state \in [Providers -> States] BY <1>1, SameOperators DEF TypeOK
    <2>2. PICK w : provider_state'
              = [provider_state EXCEPT ![p] = AdvanceMarker(@, w, index[c].version)]
      BY <1>2, SameOperators DEF Apply, DB!ApplySegment
    <2>3. provider_state'[p] = AdvanceMarker(provider_state[p], w, index[c].version)
      BY <1>4, <2>1, <2>2
    <2>4. provider_state'[p].last_index_version = index[c].version
      BY <2>3 DEF AdvanceMarker
    <2> QED BY <2>1, <2>2, <2>4
  <1>9. index[c].version # None BY <1>7, NoneAssumption DEF Versions
  <1>10. v \in Nat BY <1>1, <1>5 DEF TypeOK, Versions
  <1>11. ASSUME NEW q \in Providers PROVE Covered(q)'
    <2>1. CASE q = p BY <1>5, <1>6, <1>7, <1>8, <1>9, <1>10, <2>1 DEF Covered, Versions
    <2>2. CASE q # p
      <3>1. LastApplied(q)' = LastApplied(q) /\ provider_state'[q] = provider_state[q]
        BY <1>5, <1>8, <2>2
      <3> QED BY <3>1 DEF Covered
    <2> QED BY <2>1, <2>2
  <1>12. PICK applied : applied = [result[c] EXCEPT !.segments_applied = @ \union {v}]
    OBVIOUS
  <1>13. IF pending[c] = {v} THEN Finish(c, applied)
         ELSE /\ result' = [result EXCEPT ![c] = applied] /\ Goto(c, "segment")
              /\ UNCHANGED <<index, report>>
    BY <1>3, <1>12 DEF Apply
  <1>14. CASE pending[c] = {v} BY <1>1, <1>11, <1>13, <1>14, CoversFinish
  <1>15. CASE pending[c] # {v}
    <2>1. result'[c] = applied /\ pc'[c] = "segment" /\ UNCHANGED <<index, report>>
      BY <1>1, <1>13, <1>15 DEF TypeOK, Goto
    <2>2. applied.index_version = index[c].version BY <1>6, <1>12 DEF Result
    <2>3. LastApplied(Provider(c))' = v
      <3>1. Provider(c)' = p BY <1>2, <2>1 DEF Provider
      <3> QED BY <1>5, <3>1 DEF LastApplied, DB!LastApplied
    <2>4. \A w \in index[c].segments : w <= index[c].version BY <1>6 DEF Covers
    <2>5. index[c].version >= v BY <1>6, <1>7, <1>10 DEF Versions
    <2>6. Covers(c)' BY <2>1, <2>2, <2>3, <2>4, <2>5 DEF Covers
    <2> QED BY <1>11, <2>6
  <1> QED BY <1>14, <1>15

LEMMA CoveredEnds ==
    ASSUME Inv, NEW c \in Procs, Covers(c), Ends(c), \A p \in Providers : Covered(p)
    PROVE  Covers(c)' /\ \A p \in Providers : Covered(p)'
  <1>1. TypeOK /\ AuditIsPrefix /\ Control(c) BY DEF Inv
  <1>2. pc[c] = "record" /\ pc[c] \in Working /\ Finish(c, result[c])
    BY DEF Ends, Record, RecordFailedFails, Working
  <1>3. Covers(c)' BY <1>1, <1>2, CoversFinish
  <1>4. CASE Record(c)
    <2>1. PICK p \in Providers : p = Provider(c) BY <1>1, <1>2, ProviderOf
    <2>2. PICK iv : iv = result[c].index_version OBVIOUS
    <2>3. provider_state \in [Providers -> States] BY <1>1, SameOperators DEF TypeOK
    <2>4. provider_state' = [provider_state EXCEPT ![p] = NoteResult(@, result[c].status, iv)]
      BY <1>4, <2>1, <2>2, SameOperators DEF Record, DB!RecordCrawlResult
    <2>5. /\ provider_state'[p] = NoteResult(provider_state[p], result[c].status, iv)
          /\ \A q \in Providers \ {p} : provider_state'[q] = provider_state[q]
      BY <2>3, <2>4
    <2>6. \A q \in Providers : LastApplied(q)' = LastApplied(q) /\ LastApplied(q) \in Nat
      <3>1. UNCHANGED catalog_items /\ \A q \in Providers : LastApplied(q)' = LastApplied(q)
        BY <1>1, <1>4, RecordKeeps DEF Inv
      <3> QED BY <1>1, <3>1, Typed
    <2>7. iv = None \/ iv >= LastApplied(p) BY <1>2, <2>1, <2>2 DEF Covers
    <2>8. provider_state'[p].last_index_version
             = IF iv = None THEN IndexSeen(provider_state[p]) ELSE iv
      BY <2>5 DEF NoteResult
    <2>9. LastApplied(p) > 0 => IndexSeen(provider_state[p]) = provider_state[p].last_index_version
      <3>1. LastApplied(p) = Applied(provider_state[p]) BY SameOperators
      <3> QED BY <3>1 DEF Applied, IndexSeen
    <2>10. Covered(p)' BY <2>6, <2>7, <2>8, <2>9 DEF Covered
    <2>11. \A q \in Providers \ {p} : Covered(q)' BY <2>5, <2>6 DEF Covered
    <2> QED BY <1>3, <2>10, <2>11
  <1>5. CASE RecordFailedFails(c)
    <2>1. UNCHANGED tables BY <1>5 DEF RecordFailedFails
    <2>2. \A q \in Providers : LastApplied(q)' = LastApplied(q) BY <1>1, <2>1, TablesStay
    <2> QED BY <1>3, <2>1, <2>2 DEF Covered, tables
  <1> QED BY <1>4, <1>5 DEF Ends

LEMMA CoverStep ==
    ASSUME Numbered, SoleInv, [Next]_vars, \A c \in Procs : Covers(c),
           \A p \in Providers : Covered(p)
    PROVE  /\ \A c \in Procs : Covers(c)'
           /\ \A p \in Providers : Covered(p)'
  <1>1. Inv /\ Sole /\ \A c \in Procs : Fresh(c) BY DEF SoleInv
  <1>2. TypeOK /\ \A c \in Procs : Control(c) /\ Behind(c) BY <1>1 DEF Inv
  <1>3. \A c, d \in Procs : c = d BY <1>1 DEF Sole
  <1>4. CASE \E c \in Procs : Apply(c)
    <2>1. PICK c \in Procs : Apply(c) BY <1>4
    <2>2. Covers(c)' /\ \A p \in Providers : Covered(p)' BY <1>1, <2>1, CoveredApply
    <2> QED BY <1>3, <2>2
  <1>5. CASE \E c \in Procs : Ends(c)
    <2>1. PICK c \in Procs : Ends(c) BY <1>5
    <2>2. Covers(c)' /\ \A p \in Providers : Covered(p)' BY <1>1, <2>1, CoveredEnds
    <2> QED BY <1>3, <2>2
  <1>6. CASE \A c \in Procs : ~Apply(c) /\ ~Ends(c)
    <2>1. \A p \in Providers : LastApplied(p)' = LastApplied(p) BY <1>1, <1>6, OnlyApplyWrites
    <2>2. UNCHANGED tables
      <3>1. ASSUME NEW c \in Procs, Step(c) \/ Crash(c) PROVE UNCHANGED tables
        <4>1. Begins(c) \/ Proceeds(c) \/ Abandons(c) BY <1>2, <1>6, <3>1, ReportStep
        <4> QED BY <4>1 DEF Begins, Proceeds, Abandons
      <3>2. (\E p \in Providers : Publish(p)) => UNCHANGED tables BY DEF Publish
      <3>3. UNCHANGED vars => UNCHANGED tables BY DEF vars
      <3> QED BY <3>1, <3>2, <3>3 DEF Next
    <2>3. \A p \in Providers : Covered(p)' BY <2>1, <2>2 DEF Covered, tables
    <2>4. ASSUME NEW c \in Procs PROVE Covers(c)'
      <3>1. CASE Untouched(c) BY <1>2, <2>1, <3>1, CoversUntouched
      <3>2. CASE AcceptIndex(c) BY <1>1, <1>2, <2>1, <3>2, CoversIndex
      <3>3. CASE (Step(c) \/ Crash(c)) /\ ~AcceptIndex(c)
        BY <1>2, <1>6, <2>1, <3>3, CoversElse
      <3> QED BY <1>2, <3>1, <3>2, <3>3, OneMoves
    <2> QED BY <2>3, <2>4
  <1> QED BY <1>4, <1>5, <1>6

(* The index version the store remembers for a provider is at least the     *)
(* version of the data it holds, as long as one process at a time crawls.   *)
THEOREM CrawlerIndexVersionCoversMarker ==
    Sole /\ Numbered /\ Spec => []IndexVersionCoversMarker
  <1> DEFINE CoverInv == /\ Numbered /\ SoleInv
                         /\ \A c \in Procs : Covers(c)
                         /\ \A p \in Providers : Covered(p)
  <1>1. Sole /\ Numbered /\ Init => CoverInv
    <2>1. Init => \A c \in Procs : Covers(c) BY DEF Init, Covers
    <2>2. Init => \A p \in Providers : Covered(p)
      <3>1. Init => provider_state = [p \in Providers |-> None] BY DEF Init, DB!Init
      <3> QED BY <3>1, SameOperators DEF Covered, Applied
    <2> QED BY <2>1, <2>2, SoleInit
  <1>2. CoverInv /\ [Next]_vars => CoverInv'
    <2> SUFFICES ASSUME CoverInv, [Next]_vars PROVE CoverInv' OBVIOUS
    <2>1. SoleInv' BY SoleInvStep
    <2>2. Numbered' BY DEF Numbered
    <2> QED BY <2>1, <2>2, CoverStep
  <1>3. CoverInv => IndexVersionCoversMarker BY DEF IndexVersionCoversMarker, Covered
  <1> QED BY <1>1, <1>2, <1>3, PTL DEF Spec

---------------------------------------------------------------------------
(* With any number of processes: each index version a process holds, and   *)
(* each the store remembers, is the number of an index the provider has    *)
(* published, so that writing the current one never goes backwards.        *)

Numbers(p) == {Publications[p][k].version : k \in 1..published[p]}

Held(c) ==
    pc[c] \in Working =>
        result[c].index_version = None \/ result[c].index_version \in Numbers(Provider(c))

Stored(p) == IndexSeen(provider_state[p]) \in Numbers(p) \union {None}

LEMMA NumbersGrow ==
    ASSUME TypeOK, [Next]_vars, NEW p \in Providers
    PROVE  Numbers(p) \subseteq Numbers(p)'
  <1>1. 1..published[p] \subseteq 1..published'[p] BY PublishedGrows
  <1> QED BY <1>1 DEF Numbers

LEMMA CurrentIsGreatest ==
    ASSUME Rising, TypeOK, NEW p \in Providers, NEW n \in Numbers(p)
    PROVE  /\ n \in Nat /\ Publications[p][published[p]].version \in Nat
           /\ n <= Publications[p][published[p]].version /\ n # None
  <1>1. PICK k \in 1..published[p] : n = Publications[p][k].version BY DEF Numbers
  <1>2. PICK m \in Nat : m = published[p] BY DEF TypeOK
  <1>3. /\ m <= Len(Publications[p]) /\ Len(Publications[p]) \in Nat
        /\ DOMAIN Publications[p] = 1..Len(Publications[p])
    BY <1>2, ProvidersAssumption, LenProperties DEF TypeOK
  <1>4. k \in DOMAIN Publications[p] /\ m \in DOMAIN Publications[p] /\ k <= m
    BY <1>1, <1>2, <1>3
  <1>5. n \in Nat /\ Publications[p][m].version \in Nat
    BY <1>1, <1>4, Documents DEF Versions
  <1>6. n <= Publications[p][m].version BY <1>1, <1>4 DEF Rising
  <1>7. n # None BY <1>5, NoneAssumption
  <1> QED BY <1>2, <1>5, <1>6, <1>7

(* A process that did not move, or whose result did not. *)
LEMMA HeldStays ==
    ASSUME TypeOK, [Next]_vars, NEW c \in Procs, Control(c), Held(c), pc[c] \in Working,
           report'[c] = report[c], result'[c].index_version = result[c].index_version
    PROVE  Held(c)'
  <1>1. PICK p \in Providers : p = Provider(c) BY ProviderOf
  <1>2. Provider(c)' = p BY <1>1 DEF Provider
  <1>3. Numbers(p) \subseteq Numbers(p)' BY NumbersGrow
  <1>4. Numbers(Provider(c))' = Numbers(p)' BY <1>2 DEF Numbers
  <1> QED BY <1>1, <1>3, <1>4 DEF Held

LEMMA HeldFinish ==
    ASSUME TypeOK, NEW c \in Procs, NEW r, Finish(c, r)
    PROVE  Held(c)'
  <1>1. CASE Len(report[c]) + 1 = Len(Config)
    <2>1. pc'[c] = "exited" BY <1>1 DEF TypeOK, Finish, Goto
    <2> QED BY <2>1 DEF Held, Working
  <1>2. CASE Len(report[c]) + 1 # Len(Config)
    <2>1. result'[c] = NewResult(Config[Len(report[c]) + 2]) BY <1>2 DEF TypeOK, Finish
    <2>2. result'[c].index_version = None BY <2>1 DEF NewResult
    <2> QED BY <2>2 DEF Held
  <1> QED BY <1>1, <1>2

LEMMA HeldIndex ==
    ASSUME TypeOK, NEW c \in Procs, Control(c), AcceptIndex(c)
    PROVE  Held(c)'
  <1>1. PICK q \in Providers : \E k \in DOMAIN Publications[q] :
            LET chosen == Pending(Publications[q][k].segments, last[c])
            IN  /\ IndexServed(c, q, k)
                /\ VerifyIndex(Publications[q][k], manifest[c], last[c])
                /\ result' = [result EXCEPT ![c] =
                       [result[c] EXCEPT !.index_version = Publications[q][k].version,
                           !.status = IF chosen = {} THEN "up-to-date" ELSE @]]
                /\ UNCHANGED <<published, report>>
    BY DEF AcceptIndex
  <1>2. PICK k \in DOMAIN Publications[q] :
            LET chosen == Pending(Publications[q][k].segments, last[c])
            IN  /\ IndexServed(c, q, k)
                /\ VerifyIndex(Publications[q][k], manifest[c], last[c])
                /\ result' = [result EXCEPT ![c] =
                       [result[c] EXCEPT !.index_version = Publications[q][k].version,
                           !.status = IF chosen = {} THEN "up-to-date" ELSE @]]
                /\ UNCHANGED <<published, report>>
    BY <1>1
  <1>3. pc[c] = "index" /\ k \in 1..published[q] BY <1>2 DEF IndexServed
  <1>4. q = Provider(c)
    BY <1>2, <1>3, ProvidersAssumption DEF Control, VerifyIndex, Manifest
  <1>5. Provider(c)' = q /\ published' = published BY <1>2, <1>4 DEF Provider
  <1>6. PICK n : n = Publications[q][k].version OBVIOUS
  <1>7. PICK empty \in BOOLEAN : empty = (Pending(Publications[q][k].segments, last[c]) = {})
    OBVIOUS
  <1>8. result[c] \in Result BY <1>3 DEF Control, Working
  <1>9. result' = [result EXCEPT ![c] =
           [result[c] EXCEPT !.index_version = n, !.status = IF empty THEN "up-to-date" ELSE @]]
    BY <1>2, <1>6, <1>7
  <1>10. result'[c].index_version = n BY <1>8, <1>9 DEF TypeOK, Result
  <1>11. n \in Numbers(q)' BY <1>3, <1>5, <1>6 DEF Numbers
  <1>12. Numbers(Provider(c))' = Numbers(q)' BY <1>5 DEF Numbers
  <1> QED BY <1>10, <1>11, <1>12 DEF Held

LEMMA HeldApply ==
    ASSUME TypeOK, [Next]_vars, NEW c \in Procs, Control(c), Held(c), Apply(c)
    PROVE  Held(c)'
  <1>1. pc[c] = "apply" /\ pc[c] \in Working /\ result[c] \in Result
    BY DEF Apply, Working, Control
  <1>2. PICK v : v = Version(c) OBVIOUS
  <1>3. PICK applied : applied = [result[c] EXCEPT !.segments_applied = @ \union {v}]
    OBVIOUS
  <1>4. IF pending[c] = {v} THEN Finish(c, applied)
        ELSE result' = [result EXCEPT ![c] = applied] /\ UNCHANGED report
    BY <1>2, <1>3 DEF Apply
  <1>5. CASE pending[c] = {v} BY <1>4, <1>5, HeldFinish
  <1>6. CASE pending[c] # {v}
    <2>1. result'[c] = applied /\ report'[c] = report[c] BY <1>4, <1>6 DEF TypeOK
    <2>2. applied.index_version = result[c].index_version BY <1>1, <1>3 DEF Result
    <2> QED BY <1>1, <2>1, <2>2, HeldStays
  <1> QED BY <1>5, <1>6

LEMMA HeldNext ==
    ASSUME Inv, [Next]_vars, NEW c \in Procs, Held(c)
    PROVE  Held(c)'
  <1>1. TypeOK /\ Control(c) /\ Behind(c) BY DEF Inv
  <1>2. CASE Untouched(c)
    <2>1. pc'[c] = pc[c] /\ result'[c] = result[c] /\ report'[c] = report[c]
      BY <1>2 DEF Untouched
    <2>2. pc[c] \notin Working => Held(c)' BY <2>1 DEF Held
    <2> QED BY <1>1, <2>1, <2>2, HeldStays
  <1>3. CASE Start(c)
    <2>1. result'[c] = NewResult(Config[1]) BY <1>1, <1>3 DEF TypeOK, Start
    <2>2. result'[c].index_version = None BY <2>1 DEF NewResult
    <2> QED BY <2>2 DEF Held
  <1>4. CASE AcceptManifest(c) \/ ReadState(c) \/ AcceptSegment(c)
    <2>1. pc[c] \in Working /\ UNCHANGED <<result, report>>
      BY <1>4 DEF AcceptManifest, ManifestServed, ReadState, AcceptSegment, SegmentServed,
                  Working
    <2> QED BY <1>1, <2>1, HeldStays
  <1>5. CASE AcceptIndex(c) BY <1>1, <1>5, HeldIndex
  <1>6. CASE RejectManifest(c) \/ RejectIndex(c) \/ RejectSegment(c) \/ FetchFails(c)
             \/ ApplyFails(c) \/ RecordUpToDateFails(c)
    <2>1. Failed(c) /\ pc[c] \in Working
      BY <1>6 DEF RejectManifest, ManifestServed, RejectIndex, IndexServed, RejectSegment,
                  SegmentServed, FetchFails, ApplyFails, RecordUpToDateFails, Working
    <2>2. report'[c] = report[c] /\ result'[c] = [result[c] EXCEPT !.status = "failed"]
      BY <1>1, <2>1 DEF TypeOK, Failed
    <2>3. result'[c].index_version = result[c].index_version
      BY <1>1, <2>1, <2>2 DEF Control, Result
    <2> QED BY <1>1, <2>1, <2>2, <2>3, HeldStays
  <1>7. CASE Overflow(c) \/ Escape(c) \/ Crash(c)
    <2>1. pc'[c] \in {"aborted", "idle"}
      BY <1>1, <1>7 DEF TypeOK, Overflow, Escape, Crash, Stop, Goto
    <2> QED BY <2>1 DEF Held, Working
  <1>8. CASE Apply(c) BY <1>1, <1>8, HeldApply
  <1>9. CASE Record(c) \/ RecordFailedFails(c)
    BY <1>1, <1>9, HeldFinish DEF Record, RecordFailedFails
  <1> QED BY <1>1, <1>2, <1>3, <1>4, <1>5, <1>6, <1>7, <1>8, <1>9, OneMoves DEF Step

(* The index version of p's progress row changes to the one a process with *)
(* p in turn holds, if it holds one, and in no other way.                  *)
Writes(c, p) ==
    /\ pc[c] \in {"apply", "record"} /\ Provider(c) = p
    /\ Apply(c) \/ Record(c)
    /\ result[c].index_version # None
    /\ IndexSeen(provider_state'[p]) = result[c].index_version

LEMMA IndexWritten ==
    ASSUME Inv, [Next]_vars, NEW p \in Providers
    PROVE  \/ IndexSeen(provider_state'[p]) = IndexSeen(provider_state[p])
           \/ \E c \in Procs : Writes(c, p)
  <1>1. TypeOK /\ \A c \in Procs : Control(c) /\ Behind(c) BY DEF Inv
  <1>2. provider_state \in [Providers -> States] BY <1>1, SameOperators DEF TypeOK
  <1>3. ASSUME NEW c \in Procs, Apply(c)
        PROVE  provider_state'[p] = provider_state[p] \/ Writes(c, p)
    <2>1. pc[c] = "apply" /\ pc[c] \in Working BY <1>3 DEF Apply, Working
    <2>2. PICK r \in Providers : r = Provider(c) BY <1>1, <2>1, ProviderOf
    <2>3. PICK iv \in Versions : iv = index[c].version /\ iv = result[c].index_version
      BY <1>1, <2>1 DEF Control, IndexPayload
    <2>4. PICK w \in Versions : w = Content[segment[c]].version
      BY <1>1, <2>1, ProvidersAssumption, SegmentFields DEF Control, VerifySegment, IsSegment
    <2>5. provider_state' = [provider_state EXCEPT ![r] = AdvanceMarker(@, w, iv)]
      BY <1>3, <2>2, <2>3, <2>4, SameOperators DEF Apply, DB!ApplySegment
    <2>6. CASE p # r BY <1>2, <2>5, <2>6
    <2>7. CASE p = r
      <3>1. provider_state'[p] = AdvanceMarker(provider_state[p], w, iv)
        BY <1>2, <2>5, <2>7
      <3>2. IndexSeen(provider_state'[p]) = iv
        BY <1>2, <3>1, AdvanceMarkerFacts DEF IndexSeen
      <3>3. iv # None BY NoneAssumption DEF Versions
      <3> QED BY <1>3, <2>1, <2>2, <2>3, <2>7, <3>2, <3>3 DEF Writes
    <2> QED BY <2>6, <2>7
  <1>4. ASSUME NEW c \in Procs, Record(c)
        PROVE  \/ IndexSeen(provider_state'[p]) = IndexSeen(provider_state[p])
               \/ Writes(c, p)
    <2>1. pc[c] = "record" /\ pc[c] \in Working BY <1>4 DEF Record, Working
    <2>2. PICK r \in Providers : r = Provider(c) BY <1>1, <2>1, ProviderOf
    <2>3. PICK status \in Statuses, iv \in Versions \union {None} :
             status = result[c].status /\ iv = result[c].index_version
      BY <1>1, <2>1 DEF Control, Result
    <2>4. provider_state' = [provider_state EXCEPT ![r] = NoteResult(@, status, iv)]
      BY <1>4, <2>2, <2>3, SameOperators DEF Record, DB!RecordCrawlResult
    <2>5. CASE p # r BY <1>2, <2>4, <2>5
    <2>6. CASE p = r
      <3>1. provider_state'[p] = NoteResult(provider_state[p], status, iv)
        BY <1>2, <2>4, <2>6
      <3>2. IndexSeen(provider_state'[p])
               = IF iv = None THEN IndexSeen(provider_state[p]) ELSE iv
        BY <1>2, <3>1, NoteResultFacts DEF IndexSeen
      <3> QED BY <1>4, <2>1, <2>2, <2>3, <2>6, <3>2 DEF Writes
    <2> QED BY <2>5, <2>6
  <1>5. ASSUME NEW c \in Procs, Step(c) \/ Crash(c), ~Apply(c), ~Record(c)
        PROVE  UNCHANGED tables
    <2>1. Begins(c) \/ Proceeds(c) \/ Abandons(c) \/ RecordFailedFails(c)
      BY <1>1, <1>5, ReportStep DEF Ends
    <2> QED BY <2>1 DEF Begins, Proceeds, Abandons, RecordFailedFails
  <1>6. (\E q \in Providers : Publish(q)) \/ UNCHANGED vars => UNCHANGED tables
    BY DEF Publish, vars
  <1>7. UNCHANGED tables => provider_state'[p] = provider_state[p] BY DEF tables
  <1> QED BY <1>3, <1>4, <1>5, <1>6, <1>7 DEF Next

(* However many crawls overlap, fail or die, the index version the store    *)
(* remembers goes backwards only when a process writes that of an index     *)
(* its provider has replaced.                                               *)
THEOREM CrawlerOnlyReplacedIndexRewinds ==
    Rising /\ Spec => OnlyReplacedIndexRewinds
  <1> DEFINE HeldInv == /\ Rising /\ Inv
                        /\ \A c \in Procs : Held(c)
                        /\ \A p \in Providers : Stored(p)
  <1>1. Rising /\ Init => HeldInv
    <2>1. Init => \A c \in Procs : Held(c) BY DEF Init, Held, Working
    <2>2. Init => \A p \in Providers : Stored(p)
      <3>1. Init => provider_state = [p \in Providers |-> None] BY DEF Init, DB!Init
      <3> QED BY <3>1 DEF Stored, IndexSeen
    <2> QED BY <2>1, <2>2, InitInv
  <1>2. ASSUME HeldInv, [Next]_vars, NEW p \in Providers
        PROVE  \/ IndexSeen(provider_state'[p]) = IndexSeen(provider_state[p])
               \/ \E c \in Procs :
                     Writes(c, p) /\ result[c].index_version \in Numbers(p)
    <2>1. CASE \E c \in Procs : Writes(c, p)
      <3>1. PICK c \in Procs : Writes(c, p) BY <2>1
      <3>2. result[c].index_version \in Numbers(p)
        BY <1>2, <3>1 DEF Held, Writes, Working
      <3> QED BY <3>1, <3>2
    <2> QED BY <1>2, <2>1, IndexWritten
  <1>3. HeldInv /\ [Next]_vars => HeldInv'
    <2> SUFFICES ASSUME HeldInv, [Next]_vars PROVE HeldInv' OBVIOUS
    <2>1. Inv' BY NextInv, StutterInv
    <2>2. Rising' BY DEF Rising
    <2>3. \A c \in Procs : Held(c)' BY HeldNext
    <2>4. ASSUME NEW p \in Providers PROVE Stored(p)'
      <3>1. Numbers(p) \subseteq Numbers(p)' BY NumbersGrow DEF Inv
      <3>2. IndexSeen(provider_state'[p]) \in Numbers(p) \union {None}
        BY <1>2 DEF Stored, Writes
      <3> QED BY <3>1, <3>2 DEF Stored
    <2> QED BY <2>1, <2>2, <2>3, <2>4
  <1>4. HeldInv /\ [Next]_vars
           => [\A p \in Providers :
                  LET old == IndexSeen(provider_state[p])
                      new == IndexSeen(provider_state'[p])
                  IN  old # None => \/ new # None /\ new >= old
                                    \/ \E c \in Procs :
                                          RecordsReplaced(c) /\ Provider(c) = p]_vars
    <2> SUFFICES ASSUME HeldInv, [Next]_vars, NEW p \in Providers,
                        NEW old, old = IndexSeen(provider_state[p]), old # None,
                        NEW new, new = IndexSeen(provider_state'[p])
                 PROVE  \/ new # None /\ new >= old
                        \/ \E c \in Procs : RecordsReplaced(c) /\ Provider(c) = p
      OBVIOUS
    <2>1. TypeOK /\ old \in Numbers(p) BY DEF Inv, Stored
    <2>2. PICK m : m = Publications[p][published[p]].version OBVIOUS
    <2>3. old \in Nat /\ m \in Nat /\ old <= m BY <2>1, <2>2, CurrentIsGreatest
    <2>4. CASE new = old BY <2>3, <2>4
    <2>5. CASE new # old
      <3>1. PICK c \in Procs : Writes(c, p) /\ result[c].index_version \in Numbers(p)
        BY <1>2, <2>5
      <3>2. new = result[c].index_version /\ new \in Nat /\ new # None /\ new <= m
        BY <2>1, <2>2, <3>1, CurrentIsGreatest DEF Writes
      <3>3. CASE new = m BY <2>3, <3>2, <3>3
      <3>4. CASE new # m
        <4>1. RecordsReplaced(c) /\ Provider(c) = p
          BY <2>2, <2>3, <3>1, <3>2, <3>4 DEF Writes, RecordsReplaced
        <4> QED BY <4>1
      <3> QED BY <3>3, <3>4
    <2> QED BY <2>4, <2>5
  <1> HIDE DEF HeldInv
  <1> QED BY <1>1, <1>3, <1>4, PTL DEF Spec, OnlyReplacedIndexRewinds

---------------------------------------------------------------------------
(* A result that is not "failed" is true: the version after the marker is  *)
(* not in the index it reports.                                            *)

Exhausted(p, iv) ==
    \E k \in 1..published[p] :
        /\ Publications[p][k].version = iv
        /\ LastApplied(p) + 1 \notin Publications[p][k].segments

TrueEntries(c) ==
    \A n \in 1..Len(report[c]) :
        report[c][n].status # "failed" => Exhausted(Config[n], report[c][n].index_version)

Truthful(c) ==
    /\ TrueEntries(c)
    /\ pc[c] = "record" /\ result[c].status # "failed" =>
          Exhausted(Provider(c), result[c].index_version)
    /\ pc[c] \in {"segment", "apply"} =>
          pending[c] = Pending(index[c].segments, LastApplied(Provider(c)))

LEMMA PendingAdvances ==
    ASSUME NEW S \in SUBSET Versions, NEW n \in Nat, n + 1 \in S
    PROVE  /\ Pending(S, n + 1) = Pending(S, n) \ {n + 1}
           /\ Pending(S, n) = {n + 1} => n + 2 \notin S
  <1>1. S \subseteq Nat BY DEF Versions
  <1>2. ASSUME NEW w \in S
        PROVE  w \in Pending(S, n + 1) <=> w \in Pending(S, n) /\ w # n + 1
    <2>1. w \in Nat BY <1>1
    <2>2. CASE w > n + 1
      <3>1. (n + 1)..w = {n + 1} \union ((n + 1) + 1)..w BY <2>1, <2>2
      <3> QED BY <2>1, <2>2, <3>1 DEF Pending
    <2>3. CASE ~(w > n + 1) BY <2>1, <2>3 DEF Pending
    <2> QED BY <2>2, <2>3
  <1>3. Pending(S, n + 1) \subseteq S /\ Pending(S, n) \subseteq S BY DEF Pending
  <1>4. Pending(S, n + 1) = Pending(S, n) \ {n + 1} BY <1>2, <1>3
  <1>5. ASSUME n + 2 \in S PROVE n + 2 \in Pending(S, n)
    <2>1. (n + 1)..(n + 2) = {n + 1, n + 2} /\ n + 2 > n OBVIOUS
    <2> QED BY <1>5, <2>1 DEF Pending
  <1> QED BY <1>4, <1>5

LEMMA PendingNothing ==
    ASSUME NEW S \in SUBSET Versions, NEW n \in Nat, Pending(S, n) = {}
    PROVE  n + 1 \notin S
  <1>1. (n + 1)..(n + 1) = {n + 1} /\ n + 1 > n OBVIOUS
  <1> QED BY <1>1 DEF Pending

LEMMA ExhaustedStays ==
    ASSUME TypeOK, [Next]_vars, NEW p \in Providers, NEW iv, Exhausted(p, iv),
           LastApplied(p)' = LastApplied(p)
    PROVE  Exhausted(p, iv)'
  BY PublishedGrows DEF Exhausted

LEMMA TrueEntriesStay ==
    ASSUME TypeOK, [Next]_vars, NEW c \in Procs, TrueEntries(c), report'[c] = report[c],
           Len(report[c]) <= Len(Config),
           \A n \in 1..Len(report[c]) : LastApplied(Config[n])' = LastApplied(Config[n])
    PROVE  TrueEntries(c)'
  <1>1. Len(report[c]) \in Nat /\ Len(Config) \in Nat BY ReportLength, ConfigFacts
  <1>2. ASSUME NEW n \in 1..Len(report[c]), report'[c][n].status # "failed",
               NEW iv, iv = report'[c][n].index_version
        PROVE  Exhausted(Config[n], iv)'
    <2>1. n \in 1..Len(Config) BY <1>1
    <2>2. PICK p \in Providers : p = Config[n] BY <2>1, ConfigFacts
    <2>3. Exhausted(p, iv) BY <1>2, <2>2 DEF TrueEntries
    <2>4. LastApplied(p)' = LastApplied(p)
      <3>1. LastApplied(Config[n])' = LastApplied(p)' BY <2>2
      <3> QED BY <2>2, <3>1
    <2>5. Exhausted(p, iv)' BY <2>3, <2>4, ExhaustedStays
    <2> QED BY <2>2, <2>5 DEF Exhausted
  <1>3. TrueEntries(c)' <=>
           \A n \in 1..Len(report[c]) : \A iv :
               report'[c][n].status # "failed" /\ iv = report'[c][n].index_version
                   => Exhausted(Config[n], iv)'
    BY DEF TrueEntries, Exhausted
  <1> QED BY <1>2, <1>3

LEMMA TrueFinish ==
    ASSUME NoRepeats, TypeOK, [Next]_vars, NEW c \in Procs, Control(c), pc[c] \in Working,
           TrueEntries(c), NEW p \in Providers, p = Provider(c),
           \A q \in Providers \ {p} : LastApplied(q)' = LastApplied(q),
           NEW r \in Result, Finish(c, r),
           r.status # "failed" => Exhausted(p, r.index_version)'
    PROVE  Truthful(c)'
  <1>1. /\ report[c] \in Seq(Result) /\ Len(report[c]) \in Nat
        /\ Len(Config) \in Nat /\ Len(report[c]) < Len(Config)
    BY ReportLength, ConfigFacts DEF Control
  <1>2. PICK m \in Nat : m = Len(report[c]) BY <1>1
  <1>3. report'[c] = Append(report[c], r) BY DEF TypeOK, Finish
  <1>4. /\ Len(report'[c]) = m + 1 /\ report'[c][m + 1] = r
        /\ \A n \in 1..m : report'[c][n] = report[c][n]
    BY <1>1, <1>2, <1>3, AppendProperties
  <1>5. p = Config[m + 1] BY <1>2 DEF Provider
  <1>6. ASSUME NEW n \in 1..(m + 1), report'[c][n].status # "failed",
               NEW iv, iv = report'[c][n].index_version
        PROVE  Exhausted(Config[n], iv)'
    <2>1. CASE n = m + 1
      <3>1. Exhausted(p, r.index_version)' /\ iv = r.index_version BY <1>4, <1>6, <2>1
      <3> QED BY <1>5, <2>1, <3>1 DEF Exhausted
    <2>2. CASE n # m + 1
      <3>1. n \in 1..m /\ n \in 1..Len(Config) /\ m + 1 \in 1..Len(Config)
        BY <1>1, <1>2, <2>2
      <3>2. PICK q \in Providers : q = Config[n] BY <3>1, ConfigFacts
      <3>3. q # p BY <1>5, <2>2, <3>1, <3>2 DEF NoRepeats
      <3>4. Exhausted(q, iv) BY <1>2, <1>4, <1>6, <3>1, <3>2 DEF TrueEntries
      <3>5. Exhausted(q, iv)' BY <3>3, <3>4, ExhaustedStays
      <3> QED BY <3>2, <3>5 DEF Exhausted
    <2> QED BY <2>1, <2>2
  <1>7. TrueEntries(c)'
    <2>1. TrueEntries(c)' <=>
             \A n \in 1..Len(report'[c]) : \A iv :
                 report'[c][n].status # "failed" /\ iv = report'[c][n].index_version
                     => Exhausted(Config[n], iv)'
      BY DEF TrueEntries, Exhausted
    <2>2. 1..Len(report'[c]) = 1..(m + 1) BY <1>4
    <2> QED BY <1>6, <2>1, <2>2
  <1>8. pc'[c] \in {"exited", "manifest"} BY DEF TypeOK, Finish, Goto
  <1> QED BY <1>7, <1>8 DEF Truthful

LEMMA TruthfulIndex ==
    ASSUME SoleInv, [Next]_vars, NEW c \in Procs, Reporting(c), Truthful(c), AcceptIndex(c),
           \A p \in Providers : LastApplied(p)' = LastApplied(p)
    PROVE  Truthful(c)'
  <1>1. TypeOK /\ Control(c) /\ Fresh(c) BY DEF SoleInv, Inv
  <1>2. PICK q \in Providers : \E k \in DOMAIN Publications[q] :
            LET payload == Publications[q][k]
                chosen == Pending(payload.segments, last[c])
            IN  /\ IndexServed(c, q, k)
                /\ VerifyIndex(payload, manifest[c], last[c])
                /\ index' = [index EXCEPT ![c] = payload]
                /\ pending' = [pending EXCEPT ![c] = chosen]
                /\ result' = [result EXCEPT ![c] =
                       [result[c] EXCEPT !.index_version = payload.version,
                           !.status = IF chosen = {} THEN "up-to-date" ELSE @]]
                /\ Goto(c, IF chosen = {} THEN "record" ELSE "segment")
                /\ UNCHANGED <<published, report>>
    BY DEF AcceptIndex
  <1>3. PICK k \in DOMAIN Publications[q] :
            LET payload == Publications[q][k]
                chosen == Pending(payload.segments, last[c])
            IN  /\ IndexServed(c, q, k)
                /\ VerifyIndex(payload, manifest[c], last[c])
                /\ index' = [index EXCEPT ![c] = payload]
                /\ pending' = [pending EXCEPT ![c] = chosen]
                /\ result' = [result EXCEPT ![c] =
                       [result[c] EXCEPT !.index_version = payload.version,
                           !.status = IF chosen = {} THEN "up-to-date" ELSE @]]
                /\ Goto(c, IF chosen = {} THEN "record" ELSE "segment")
                /\ UNCHANGED <<published, report>>
    BY <1>2
  <1>4. PICK S \in SUBSET Versions : S = Publications[q][k].segments BY Documents
  <1>5. PICK n : n = Publications[q][k].version OBVIOUS
  <1>6. pc[c] = "index" /\ k \in 1..published[q] BY <1>3 DEF IndexServed
  <1>7. q = Provider(c)
    BY <1>1, <1>3, <1>6, ProvidersAssumption DEF Control, VerifyIndex, Manifest
  <1>8. last[c] = LastApplied(q) /\ LastApplied(q) \in Nat
    BY <1>1, <1>6, <1>7, Typed DEF Fresh
  <1>9. PICK chosen : chosen = Pending(S, LastApplied(q)) OBVIOUS
  <1>10. PICK empty \in BOOLEAN : empty = (chosen = {}) OBVIOUS
  <1>11. /\ index' = [index EXCEPT ![c] = Publications[q][k]]
         /\ pending' = [pending EXCEPT ![c] = chosen]
         /\ result' = [result EXCEPT ![c] =
                [result[c] EXCEPT !.index_version = n,
                    !.status = IF empty THEN "up-to-date" ELSE @]]
         /\ Goto(c, IF empty THEN "record" ELSE "segment")
         /\ UNCHANGED <<published, report>>
    BY <1>3, <1>4, <1>5, <1>8, <1>9, <1>10
  <1>12. result[c] \in Result BY <1>1, <1>6 DEF Control, Working
  <1>13. result'[c].index_version = n BY <1>1, <1>11, <1>12 DEF TypeOK, Result
  <1>14. /\ index'[c] = Publications[q][k] /\ pending'[c] = chosen
         /\ pc'[c] = IF empty THEN "record" ELSE "segment"
         /\ report'[c] = report[c]
    BY <1>1, <1>11 DEF TypeOK, Goto
  <1>15. Provider(c)' = q /\ LastApplied(Provider(c))' = LastApplied(q)
    BY <1>7, <1>14, SameProvider
  <1>16. TrueEntries(c)'
    <2>1. Len(report[c]) \in Nat /\ Len(Config) \in Nat /\ Len(report[c]) <= Len(Config)
      BY <1>1, ReportLength, ConfigFacts DEF Reporting
    <2>2. ASSUME NEW m \in 1..Len(report[c])
          PROVE  LastApplied(Config[m])' = LastApplied(Config[m])
      <3>1. m \in 1..Len(Config) BY <2>1
      <3>2. PICK p \in Providers : p = Config[m] BY <3>1, ConfigFacts
      <3> QED BY <3>2
    <2> QED BY <1>1, <1>14, <2>1, <2>2, TrueEntriesStay DEF Truthful
  <1>17. CASE empty
    <2>1. LastApplied(q) + 1 \notin S BY <1>8, <1>9, <1>10, <1>17, PendingNothing
    <2>2. /\ published' = published /\ LastApplied(q)' = LastApplied(q) BY <1>11
    <2>3. Exhausted(q, n)' BY <1>4, <1>5, <1>6, <2>1, <2>2 DEF Exhausted
    <2>4. Exhausted(Provider(c), result[c].index_version)'
      BY <1>13, <1>15, <2>3 DEF Exhausted
    <2> QED BY <1>14, <1>16, <1>17, <2>4 DEF Truthful
  <1>18. CASE ~empty
    <2>1. pc'[c] = "segment" BY <1>14, <1>18
    <2>2. pending'[c] = Pending(index'[c].segments, LastApplied(q))
      BY <1>4, <1>9, <1>14
    <2>3. pending'[c] = Pending(index'[c].segments, LastApplied(Provider(c))')
      BY <1>15, <2>2
    <2> QED BY <1>16, <2>1, <2>3 DEF Truthful, Pending
  <1> QED BY <1>17, <1>18

LEMMA EntriesElsewhere ==
    ASSUME TypeOK, [Next]_vars, NEW c \in Procs, Reporting(c), TrueEntries(c),
           report'[c] = report[c],
           \A p \in Providers : LastApplied(p)' = LastApplied(p)
    PROVE  TrueEntries(c)'
  <1>1. Len(report[c]) \in Nat /\ Len(Config) \in Nat /\ Len(report[c]) <= Len(Config)
    BY ReportLength, ConfigFacts DEF Reporting
  <1>2. ASSUME NEW m \in 1..Len(report[c])
        PROVE  LastApplied(Config[m])' = LastApplied(Config[m])
    <2>1. m \in 1..Len(Config) BY <1>1
    <2>2. PICK p \in Providers : p = Config[m] BY <2>1, ConfigFacts
    <2> QED BY <2>2
  <1> QED BY <1>1, <1>2, TrueEntriesStay

LEMMA TruthfulUntouched ==
    ASSUME TypeOK, [Next]_vars, NEW c \in Procs, Control(c), Reporting(c), Truthful(c),
           Untouched(c), \A p \in Providers : LastApplied(p)' = LastApplied(p)
    PROVE  Truthful(c)'
  <1>1. /\ pc'[c] = pc[c] /\ result'[c] = result[c] /\ index'[c] = index[c]
        /\ pending'[c] = pending[c] /\ report'[c] = report[c]
    BY DEF Untouched
  <1>2. TrueEntries(c)' BY <1>1, EntriesElsewhere DEF Truthful
  <1>3. CASE pc[c] \in Working
    <2>1. PICK p \in Providers : p = Provider(c) BY <1>3, ProviderOf
    <2>2. Provider(c)' = p /\ LastApplied(Provider(c))' = LastApplied(p)
      BY <1>1, <2>1, SameProvider
    <2>3. PICK iv : iv = result[c].index_version OBVIOUS
    <2>4. Exhausted(p, iv) => Exhausted(p, iv)' BY ExhaustedStays
    <2>5. Exhausted(p, iv)' => Exhausted(Provider(c), result[c].index_version)'
      BY <1>1, <2>2, <2>3 DEF Exhausted
    <2> QED BY <1>1, <1>2, <2>1, <2>2, <2>3, <2>4, <2>5 DEF Truthful, Pending
  <1>4. CASE pc[c] \notin Working BY <1>1, <1>2, <1>4 DEF Truthful, Working
  <1> QED BY <1>3, <1>4

LEMMA TruthfulElse ==
    ASSUME TypeOK, [Next]_vars, NEW c \in Procs, Control(c), Reporting(c), Truthful(c),
           Step(c) \/ Crash(c), ~AcceptIndex(c), ~Apply(c), ~Ends(c),
           \A p \in Providers : LastApplied(p)' = LastApplied(p)
    PROVE  Truthful(c)'
  <1>1. CASE Start(c)
    <2>1. pc'[c] = "manifest" /\ report'[c] = <<>> /\ Len(report'[c]) = 0
      BY <1>1, EmptySeq DEF TypeOK, Start, Goto
    <2>2. 1..Len(report'[c]) = {} BY <2>1
    <2> QED BY <2>1, <2>2 DEF Truthful, TrueEntries
  <1>2. CASE AcceptManifest(c) \/ ReadState(c)
    <2>1. pc'[c] \in {"state", "index"} /\ report'[c] = report[c]
      BY <1>2 DEF TypeOK, AcceptManifest, ReadState, Goto
    <2>2. TrueEntries(c)' BY <2>1, EntriesElsewhere DEF Truthful
    <2> QED BY <2>1, <2>2 DEF Truthful
  <1>3. CASE AcceptSegment(c)
    <2>1. /\ pc[c] = "segment" /\ pc'[c] = "apply"
          /\ UNCHANGED <<index, pending, report>>
      BY <1>3 DEF TypeOK, AcceptSegment, SegmentServed, Goto
    <2>2. TrueEntries(c)' BY <2>1, EntriesElsewhere DEF Truthful
    <2>3. PICK p \in Providers : p = Provider(c) BY <2>1, ProviderOf DEF Working
    <2>4. LastApplied(Provider(c))' = LastApplied(Provider(c)) BY <2>1, <2>3, SameProvider
    <2> QED BY <2>1, <2>2, <2>4 DEF Truthful, Pending
  <1>4. CASE RejectManifest(c) \/ RejectIndex(c) \/ RejectSegment(c) \/ FetchFails(c)
             \/ ApplyFails(c) \/ RecordUpToDateFails(c)
    <2>1. Failed(c) /\ pc[c] \in Working
      BY <1>4 DEF RejectManifest, ManifestServed, RejectIndex, IndexServed, RejectSegment,
                  SegmentServed, FetchFails, ApplyFails, RecordUpToDateFails, Working
    <2>2. /\ pc'[c] = "record" /\ report'[c] = report[c]
          /\ result'[c] = [result[c] EXCEPT !.status = "failed"]
      BY <2>1 DEF TypeOK, Failed, Goto
    <2>3. result'[c].status = "failed" BY <2>1, <2>2 DEF Control, Result
    <2>4. TrueEntries(c)' BY <2>2, EntriesElsewhere DEF Truthful
    <2> QED BY <2>2, <2>3, <2>4 DEF Truthful
  <1>5. CASE Overflow(c) \/ Escape(c) \/ Crash(c)
    <2>1. pc'[c] \in {"aborted", "idle"} /\ report'[c] = report[c]
      BY <1>5 DEF TypeOK, Overflow, Escape, Crash, Stop, Goto
    <2>2. TrueEntries(c)' BY <2>1, EntriesElsewhere DEF Truthful
    <2> QED BY <2>1, <2>2 DEF Truthful
  <1> QED BY <1>1, <1>2, <1>3, <1>4, <1>5 DEF Step, Ends

LEMMA TruthfulEnds ==
    ASSUME NoRepeats, Inv, [Next]_vars, NEW c \in Procs, Truthful(c), Ends(c),
           \A p \in Providers : LastApplied(p)' = LastApplied(p)
    PROVE  Truthful(c)'
  <1>1. TypeOK /\ Control(c) BY DEF Inv
  <1>2. pc[c] = "record" /\ pc[c] \in Working /\ Finish(c, result[c])
    BY DEF Ends, Record, RecordFailedFails, Working
  <1>3. PICK p \in Providers : p = Provider(c) BY <1>1, <1>2, ProviderOf
  <1>4. PICK r \in Result : r = result[c] BY <1>1, <1>2 DEF Control
  <1>5. r.status # "failed" => Exhausted(p, r.index_version)
    BY <1>2, <1>3, <1>4 DEF Truthful
  <1>6. r.status # "failed" => Exhausted(p, r.index_version)'
    BY <1>1, <1>5, ExhaustedStays
  <1>7. TrueEntries(c) BY DEF Truthful
  <1> QED BY <1>1, <1>2, <1>3, <1>4, <1>6, <1>7, TrueFinish

LEMMA TruthfulApply ==
    ASSUME NoRepeats, Inv, [Next]_vars, NEW c \in Procs, Fresh(c), Offered(c),
           Reporting(c), Truthful(c), Apply(c)
    PROVE  Truthful(c)'
  <1>1. TypeOK /\ Control(c) /\ Behind(c) BY DEF Inv
  <1>2. PICK p : p = Provider(c) OBVIOUS
  <1>3. p \in Providers BY <1>1, <1>2, ApplyFacts
  <1>4. PICK n \in Nat : n = LastApplied(p) BY <1>1, <1>3, Typed
  <1>5. PICK v : v = Version(c) OBVIOUS
  <1>6. /\ v = n + 1 /\ LastApplied(p)' = n + 1 /\ v \in pending[c]
        /\ \A q \in Providers \ {p} : LastApplied(q)' = LastApplied(q)
    BY <1>1, <1>2, <1>4, <1>5, AppliesNext, ApplyFacts
  <1>7. /\ pc[c] = "apply" /\ pc[c] \in Working /\ index[c] \in IndexPayload
        /\ pending[c] \subseteq index[c].segments
        /\ result[c].index_version = index[c].version /\ result[c] \in Result
    BY <1>1 DEF Apply, Control, Working
  <1>8. PICK S \in SUBSET Versions : S = index[c].segments BY <1>7 DEF IndexPayload
  <1>9. pending[c] = Pending(S, n) /\ n + 1 \in S
    BY <1>2, <1>4, <1>6, <1>7, <1>8 DEF Truthful
  <1>10. PICK k \in 1..published[p] : index[c] = Publications[p][k]
    BY <1>2, <1>7 DEF Offered
  <1>11. PICK applied : applied = [result[c] EXCEPT !.segments_applied = @ \union {v}]
    OBVIOUS
  <1>12. applied \in Result /\ applied.index_version = index[c].version
    <2>1. v \in Versions BY <1>1, <1>6 DEF TypeOK
    <2> QED BY <1>7, <1>11, <2>1 DEF Result
  <1>13. IF pending[c] = {v} THEN Finish(c, applied)
         ELSE /\ result' = [result EXCEPT ![c] = applied] /\ Goto(c, "segment")
              /\ pending' = [pending EXCEPT ![c] = @ \ {v}]
              /\ UNCHANGED <<index, report>>
    BY <1>5, <1>11 DEF Apply
  <1>14. CASE pending[c] = {v}
    <2>1. n + 2 \notin S BY <1>6, <1>9, <1>14, PendingAdvances
    <2>2. LastApplied(p)' + 1 = n + 2 BY <1>6
    <2>3. k \in 1..published'[p] BY <1>1, <1>3, <1>10, PublishedGrows
    <2>4. Exhausted(p, applied.index_version)'
      BY <1>8, <1>10, <1>12, <2>1, <2>2, <2>3 DEF Exhausted
    <2>5. TrueEntries(c) BY DEF Truthful
    <2> QED BY <1>1, <1>2, <1>3, <1>6, <1>7, <1>12, <1>13, <1>14, <2>4, <2>5, TrueFinish
  <1>15. CASE pending[c] # {v}
    <2>1. /\ pc'[c] = "segment" /\ pending'[c] = pending[c] \ {v} /\ index'[c] = index[c]
          /\ report'[c] = report[c]
      BY <1>1, <1>13, <1>15 DEF TypeOK, Goto
    <2>2. LastApplied(Provider(c))' = n + 1
      <3>1. Provider(c)' = p BY <1>2, <2>1 DEF Provider
      <3> QED BY <1>6, <3>1 DEF LastApplied, DB!LastApplied
    <2>3. pending'[c] = Pending(S, n + 1) BY <1>6, <1>9, <2>1, PendingAdvances
    <2>4. TrueEntries(c)'
      <3>1. /\ Len(report[c]) \in Nat /\ Len(Config) \in Nat /\ Len(report[c]) < Len(Config)
        BY <1>1, <1>7, ReportLength, ConfigFacts DEF Control
      <3>2. ASSUME NEW m \in 1..Len(report[c])
            PROVE  LastApplied(Config[m])' = LastApplied(Config[m])
        <4>1. m \in 1..Len(Config) /\ Len(report[c]) + 1 \in 1..Len(Config)
              /\ m # Len(report[c]) + 1
          BY <3>1
        <4>2. PICK q \in Providers : q = Config[m] BY <4>1, ConfigFacts
        <4>3. q # p BY <1>2, <4>1, <4>2 DEF NoRepeats, Provider
        <4> QED BY <1>6, <4>2, <4>3
      <3> QED BY <1>1, <2>1, <3>1, <3>2, TrueEntriesStay DEF Truthful
    <2>5. pending'[c] = Pending(index'[c].segments, LastApplied(Provider(c))')
      BY <1>8, <2>1, <2>2, <2>3
    <2> QED BY <2>1, <2>4, <2>5 DEF Truthful, Pending
  <1> QED BY <1>14, <1>15

TruthInv == /\ SoleInv /\ NoRepeats
            /\ \A c \in Procs : Reporting(c) /\ Offered(c) /\ Truthful(c)

LEMMA TruthStep ==
    ASSUME TruthInv, [Next]_vars
    PROVE  TruthInv'
  <1>1. /\ Inv /\ Sole /\ ReportInv
        /\ \A c \in Procs : Fresh(c) /\ Reporting(c) /\ Offered(c) /\ Truthful(c)
    BY DEF TruthInv, SoleInv, ReportInv
  <1>2. TypeOK /\ \A c \in Procs : Control(c) /\ Behind(c) BY <1>1 DEF Inv
  <1>3. SoleInv' BY SoleInvStep DEF TruthInv
  <1>4. NoRepeats' /\ NoRepeats BY DEF TruthInv, NoRepeats
  <1>5. \A c \in Procs : Reporting(c)' BY <1>1, ReportInvStep DEF ReportInv
  <1>6. \A c \in Procs : Offered(c)' BY <1>1, <1>2, OneMoves, OfferedStep, OfferedUntouched
  <1>7. ASSUME NEW c \in Procs PROVE Truthful(c)'
    <2>1. CASE Apply(c) BY <1>1, <1>4, <2>1, TruthfulApply
    <2>2. CASE ~Apply(c)
      <3>1. \A d \in Procs : ~Apply(d) BY <1>1, <2>2 DEF Sole
      <3>2. \A p \in Providers : LastApplied(p)' = LastApplied(p)
        BY <1>1, <3>1, OnlyApplyWrites
      <3>3. CASE Ends(c) BY <1>1, <1>4, <3>2, <3>3, TruthfulEnds
      <3>4. CASE AcceptIndex(c) BY <1>1, <3>2, <3>4, TruthfulIndex DEF TruthInv
      <3>5. CASE (Step(c) \/ Crash(c)) /\ ~Ends(c) /\ ~AcceptIndex(c)
        BY <1>1, <1>2, <2>2, <3>2, <3>5, TruthfulElse
      <3>6. CASE Untouched(c) BY <1>1, <1>2, <3>2, <3>6, TruthfulUntouched
      <3> QED BY <1>2, <3>3, <3>4, <3>5, <3>6, OneMoves
    <2> QED BY <2>1, <2>2
  <1> QED BY <1>3, <1>4, <1>5, <1>6, <1>7 DEF TruthInv

(* A result that is not "failed" means the catalog took everything the      *)
(* index it reports had to offer next.                                      *)
THEOREM CrawlerSuccessMeansCaughtUp ==
    Sole /\ NoRepeats /\ Spec => []SuccessMeansCaughtUp
  <1>1. Sole /\ NoRepeats /\ Init => TruthInv
    <2>1. Init => \A c \in Procs : Offered(c) BY DEF Init, Offered
    <2>2. Init => \A c \in Procs : pc[c] = "idle" /\ Len(report[c]) = 0
      BY EmptySeq DEF Init
    <2>3. Init => \A c \in Procs : Truthful(c) BY <2>2 DEF Truthful, TrueEntries
    <2>4. Init => \A c \in Procs : Reporting(c) BY ReportInit DEF ReportInv
    <2> QED BY <2>1, <2>3, <2>4, SoleInit DEF TruthInv
  <1>2. TruthInv => SuccessMeansCaughtUp
    <2> SUFFICES ASSUME TruthInv, NEW c \in Procs, NEW n \in DOMAIN report[c],
                        NEW r, r = report[c][n], r.status # "failed"
                 PROVE  \E k \in 1..published[r.provider_id] :
                            /\ Publications[r.provider_id][k].version = r.index_version
                            /\ LastApplied(r.provider_id) + 1
                                 \notin Publications[r.provider_id][k].segments
      BY DEF SuccessMeansCaughtUp
    <2>1. TypeOK /\ Reporting(c) /\ Truthful(c) BY DEF TruthInv, SoleInv, Inv
    <2>2. n \in 1..Len(report[c]) BY <2>1, ReportLength, LenProperties
    <2>3. r.provider_id = Config[n] BY <2>1, <2>2 DEF Reporting, Entries
    <2>4. Exhausted(Config[n], r.index_version) BY <2>1, <2>2 DEF Truthful, TrueEntries
    <2> QED BY <2>3, <2>4 DEF Exhausted
  <1> QED BY <1>1, <1>2, TruthStep, PTL DEF Spec

---------------------------------------------------------------------------
(* A visit is finite: every step of it brings it closer to its end.        *)

FilesOf(c) == Len(Files[Provider(c)])

LEMMA StepsLeftIs ==
    ASSUME NEW c, NEW n, n = FilesOf(c), NEW v, v = Version(c)
    PROVE  /\ pc[c] = "manifest" => StepsLeft(c) = 2 * n + 6
           /\ pc[c] = "state" => StepsLeft(c) = 2 * n + 5
           /\ pc[c] = "index" => StepsLeft(c) = 2 * n + 4
           /\ pc[c] = "segment" => StepsLeft(c) = 2 * (n - v) + 4
           /\ pc[c] = "apply" => StepsLeft(c) = 2 * (n - v) + 3
           /\ pc[c] = "record" /\ result[c].status = "failed" => StepsLeft(c) = 1
           /\ pc[c] = "record" /\ result[c].status # "failed" => StepsLeft(c) = 2
  BY DEF StepsLeft, FilesOf

LEMMA StepsLeftWillBe ==
    ASSUME NEW c, report'[c] = report[c], NEW n, n = FilesOf(c), NEW v, v = Version(c)'
    PROVE  /\ pc'[c] = "state" => StepsLeft(c)' = 2 * n + 5
           /\ pc'[c] = "index" => StepsLeft(c)' = 2 * n + 4
           /\ pc'[c] = "segment" => StepsLeft(c)' = 2 * (n - v) + 4
           /\ pc'[c] = "apply" => StepsLeft(c)' = 2 * (n - v) + 3
           /\ pc'[c] = "record" /\ result'[c].status = "failed" => StepsLeft(c)' = 1
           /\ pc'[c] = "record" /\ result'[c].status # "failed" => StepsLeft(c)' = 2
  <1>1. n = Len(Files[Provider(c)'])  BY DEF FilesOf, Provider
  <1> QED BY <1>1 DEF StepsLeft

(* The version at hand is one of the provider's files, and no later than   *)
(* the others still to apply.                                              *)
LEMMA AtHand ==
    ASSUME TypeOK, NEW c \in Procs, Control(c), pc[c] \in Working
    PROVE  /\ FilesOf(c) \in Nat
           /\ pc[c] \in {"segment", "apply"} =>
                 /\ Version(c) \in 1..FilesOf(c)
                 /\ \A w \in pending[c] : w \in 1..FilesOf(c) /\ Version(c) <= w
  <1>1. PICK p \in Providers : p = Provider(c) BY ProviderOf
  <1>2. FilesOf(c) = Len(Files[p]) BY <1>1 DEF FilesOf
  <1>3. DOMAIN Files[p] = 1..Len(Files[p]) /\ Len(Files[p]) \in Nat
    BY Documents, LenProperties
  <1>4. ASSUME pc[c] \in {"segment", "apply"}
        PROVE  /\ Version(c) \in 1..FilesOf(c)
               /\ \A w \in pending[c] : w \in 1..FilesOf(c) /\ Version(c) <= w
    <2>1. /\ pending[c] \in SUBSET Versions /\ pending[c] # {}
          /\ pending[c] \subseteq DOMAIN Files[p]
      BY <1>1, <1>4 DEF TypeOK, Control
    <2>2. Version(c) \in pending[c] /\ \A w \in pending[c] : Version(c) <= w
      BY <2>1, EarliestFacts DEF Version
    <2> QED BY <1>2, <1>3, <2>1, <2>2
  <1> QED BY <1>2, <1>3, <1>4

Nears(c) == report'[c] = report[c] /\ 0 < StepsLeft(c)' /\ StepsLeft(c)' < StepsLeft(c)

(* A failure, from wherever it came, is one record call away from the end. *)
LEMMA FailureNears ==
    ASSUME TypeOK, NEW c \in Procs, Control(c), pc[c] \in Working, Failed(c),
           pc[c] = "record" => result[c].status = "up-to-date"
    PROVE  Nears(c)
  <1>1. /\ pc'[c] = "record" /\ report'[c] = report[c]
        /\ result'[c] = [result[c] EXCEPT !.status = "failed"]
    BY DEF TypeOK, Failed, Goto
  <1>2. result'[c].status = "failed" BY <1>1 DEF Control, Result
  <1>3. PICK n, v, w : n = FilesOf(c) /\ v = Version(c) /\ w = Version(c)' OBVIOUS
  <1>4. StepsLeft(c)' = 1 BY <1>1, <1>2, <1>3, StepsLeftWillBe
  <1>5. n \in Nat /\ (pc[c] \in {"segment", "apply"} => v \in 1..n) BY <1>3, AtHand
  <1>6. StepsLeft(c) > 1
    <2>1. CASE pc[c] = "record" BY <1>3, <2>1, StepsLeftIs
    <2>2. CASE pc[c] \in {"segment", "apply"} BY <1>3, <1>5, <2>2, StepsLeftIs
    <2>3. CASE pc[c] \in {"manifest", "state", "index"} BY <1>3, <1>5, <2>3, StepsLeftIs
    <2> QED BY <2>1, <2>2, <2>3 DEF Working
  <1> QED BY <1>1, <1>4, <1>6 DEF Nears

(* Each step forward is nearer, the applied segment being the earliest.    *)
LEMMA ForwardNears ==
    ASSUME TypeOK, TypeOK', NEW c \in Procs, Control(c), Control(c)', report'[c] = report[c],
           \/ pc[c] = "manifest" /\ pc'[c] = "state"
           \/ pc[c] = "state" /\ pc'[c] = "index"
           \/ pc[c] = "index" /\ pc'[c] \in {"record", "segment"}
           \/ pc[c] = "segment" /\ pc'[c] = "apply" /\ pending'[c] = pending[c]
           \/ pc[c] = "apply" /\ pc'[c] = "segment" /\ pending'[c] = pending[c] \ {Version(c)}
    PROVE  Nears(c)
  <1>1. PICK n, v, w : n = FilesOf(c) /\ v = Version(c) /\ w = Version(c)' OBVIOUS
  <1>2. pc[c] \in Working /\ pc'[c] \in Working BY DEF Working
  <1>3. /\ n \in Nat
        /\ pc[c] \in {"segment", "apply"} =>
              v \in 1..n /\ \A u \in pending[c] : u \in 1..n /\ v <= u
    BY <1>1, <1>2, AtHand
  <1>4. pc'[c] \in {"segment", "apply"} => w \in pending'[c] /\ w \in 1..n
    <2> SUFFICES ASSUME pc'[c] \in {"segment", "apply"} PROVE w \in pending'[c] /\ w \in 1..n
      OBVIOUS
    <2>1. PICK p \in Providers : p = Provider(c) BY <1>2, ProviderOf
    <2>2. Provider(c)' = p BY <2>1 DEF Provider
    <2>3. /\ pending'[c] \in SUBSET Versions /\ pending'[c] # {}
          /\ pending'[c] \subseteq DOMAIN Files[p]
      BY <2>2 DEF TypeOK, Control
    <2>4. Earliest(pending'[c]) \in pending'[c] BY <2>3, EarliestFacts
    <2>5. w = Earliest(pending'[c]) BY <1>1 DEF Version, Earliest
    <2>6. DOMAIN Files[p] = 1..n BY <1>1, <2>1, Documents, LenProperties DEF FilesOf
    <2> QED BY <2>3, <2>4, <2>5, <2>6
  <1>5. CASE pc[c] = "manifest" \/ pc[c] = "state"
    BY <1>1, <1>3, <1>5, StepsLeftIs, StepsLeftWillBe DEF Nears
  <1>6. CASE pc[c] = "index"
    BY <1>1, <1>3, <1>4, <1>6, StepsLeftIs, StepsLeftWillBe DEF Nears
  <1>7. CASE pc[c] = "segment"
    <2>1. w = v BY <1>1, <1>7 DEF Version, Earliest
    <2>2. StepsLeft(c) = 2 * (n - v) + 4 /\ StepsLeft(c)' = 2 * (n - w) + 3
      BY <1>1, <1>7, StepsLeftIs, StepsLeftWillBe
    <2>3. v \in Nat /\ v <= n BY <1>3, <1>7
    <2> QED BY <1>3, <2>1, <2>2, <2>3 DEF Nears
  <1>8. CASE pc[c] = "apply"
    <2>1. w \in pending[c] /\ w # v /\ w \in 1..n BY <1>1, <1>4, <1>8
    <2>2. v < w BY <1>3, <1>8, <2>1
    <2>3. StepsLeft(c) = 2 * (n - v) + 3 /\ StepsLeft(c)' = 2 * (n - w) + 4
      BY <1>1, <1>8, StepsLeftIs, StepsLeftWillBe
    <2> QED BY <1>3, <1>8, <2>1, <2>2, <2>3 DEF Nears
  <1> QED BY <1>5, <1>6, <1>7, <1>8

LEMMA FinishEnds ==
    ASSUME TypeOK, NEW c \in Procs, NEW r, Finish(c, r)
    PROVE  Len(report'[c]) = Len(report[c]) + 1
  <1>1. report'[c] = Append(report[c], r) /\ report[c] \in Seq(Result)
    BY DEF TypeOK, Finish
  <1> QED BY <1>1, AppendProperties

LEMMA VisitNears ==
    ASSUME Inv, NEW c \in Procs, pc[c] \in Working, Step(c) \/ Crash(c)
    PROVE  \/ Len(report'[c]) = Len(report[c]) + 1
           \/ pc'[c] \in Resting
           \/ Nears(c)
  <1>1. TypeOK /\ AuditIsPrefix /\ Control(c) /\ Behind(c) BY DEF Inv
  <1>2. TypeOK' /\ Control(c)' BY <1>1, StepKeeps
  <1>3. CASE Start(c) BY <1>3 DEF Start, Working, Resting
  <1>4. CASE AcceptManifest(c) \/ ReadState(c) \/ AcceptIndex(c) \/ AcceptSegment(c)
    <2>1. /\ report'[c] = report[c]
          /\ \/ pc[c] = "manifest" /\ pc'[c] = "state"
             \/ pc[c] = "state" /\ pc'[c] = "index"
             \/ pc[c] = "index" /\ pc'[c] \in {"record", "segment"}
             \/ pc[c] = "segment" /\ pc'[c] = "apply" /\ pending'[c] = pending[c]
      <3> USE <1>1 DEF TypeOK, Goto
      <3>1. CASE AcceptManifest(c) BY <3>1 DEF AcceptManifest, ManifestServed
      <3>2. CASE ReadState(c) BY <3>2 DEF ReadState
      <3>3. CASE AcceptIndex(c) BY <3>3 DEF AcceptIndex, IndexServed
      <3>4. CASE AcceptSegment(c) BY <3>4 DEF AcceptSegment, SegmentServed
      <3> QED BY <1>4, <3>1, <3>2, <3>3, <3>4
    <2> QED BY <1>1, <1>2, <2>1, ForwardNears
  <1>5. CASE RejectManifest(c) \/ RejectIndex(c) \/ RejectSegment(c) \/ FetchFails(c)
             \/ ApplyFails(c) \/ RecordUpToDateFails(c)
    <2>1. Failed(c) /\ (pc[c] = "record" => result[c].status = "up-to-date")
      BY <1>5 DEF RejectManifest, ManifestServed, RejectIndex, IndexServed, RejectSegment,
                  SegmentServed, FetchFails, ApplyFails, RecordUpToDateFails
    <2> QED BY <1>1, <2>1, FailureNears
  <1>6. CASE Apply(c)
    <2>1. PICK r : r = [result[c] EXCEPT !.segments_applied = @ \union {Version(c)}] OBVIOUS
    <2>2. /\ pc[c] = "apply"
          /\ IF pending[c] = {Version(c)} THEN Finish(c, r)
             ELSE /\ pending' = [pending EXCEPT ![c] = @ \ {Version(c)}]
                  /\ Goto(c, "segment") /\ report' = report
      BY <1>6, <2>1 DEF Apply
    <2>3. CASE pending[c] = {Version(c)} BY <1>1, <2>2, <2>3, FinishEnds
    <2>4. CASE pending[c] # {Version(c)}
      <3>1. /\ pc'[c] = "segment" /\ pending'[c] = pending[c] \ {Version(c)}
            /\ report'[c] = report[c]
        BY <1>1, <2>2, <2>4 DEF TypeOK, Goto
      <3> QED BY <1>1, <1>2, <2>2, <3>1, ForwardNears
    <2> QED BY <2>3, <2>4
  <1>7. CASE Record(c) \/ RecordFailedFails(c)
    BY <1>1, <1>7, FinishEnds DEF Record, RecordFailedFails
  <1>8. CASE Overflow(c) \/ Escape(c) \/ Crash(c)
    BY <1>1, <1>8 DEF TypeOK, Overflow, Escape, Crash, Stop, Goto, Resting
  <1> QED BY <1>3, <1>4, <1>5, <1>6, <1>7, <1>8 DEF Step

(* No visit goes on for ever, for any number of processes, providers and    *)
(* faults: from where a process is, at most StepsLeft of its own steps      *)
(* bring it to a verdict or to the end of its run.                          *)
THEOREM CrawlerVisitsAreFinite == Spec => VisitsAreFinite
  <1>1. ASSUME Inv, [Next]_vars, NEW c \in Procs, pc[c] \in Working
        PROVE  \/ UNCHANGED Locals(c)
               \/ Len(report'[c]) = Len(report[c]) + 1
               \/ pc'[c] \in Resting
               \/ Nears(c)
    <2>1. CASE Untouched(c) BY <2>1 DEF Untouched, Locals
    <2>2. CASE Step(c) \/ Crash(c) BY <1>1, <2>2, VisitNears
    <2> QED BY <1>1, <2>1, <2>2, OneMoves DEF Inv
  <1>2. Inv /\ [Next]_vars =>
           [\A c \in Procs : pc[c] \in Working =>
               \/ UNCHANGED Locals(c)
               \/ Len(report'[c]) = Len(report[c]) + 1
               \/ pc'[c] \in Resting
               \/ Nears(c)]_vars
    BY <1>1
  <1> QED BY <1>2, CrawlerInvariant, PTL DEF Spec, VisitsAreFinite, Nears
=============================================================================
