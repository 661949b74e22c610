---------------------------- MODULE CatalogStore ----------------------------
(***************************************************************************)
(* crawler/storage.py one SQL statement at a time: several connections to  *)
(* one SQLite file, each running apply_segment or record_crawl_result in   *)
(* its own transaction.                                                    *)
(*                                                                         *)
(* The tables are the committed database, what any reader sees (WAL).  A   *)
(* transaction works on tx[c], the connection's private copy; BEGIN        *)
(* IMMEDIATE takes the one write lock, so at most one copy exists.         *)
(* CatalogStore implements Catalog: see Atomicity.                         *)
(***************************************************************************)
EXTENDS CatalogTables

CONSTANTS
    Connections,    \* one per crawler process
    Segments,
    IndexVersions,
    SqlIntMax       \* 2^63 - 1: the largest integer sqlite3 can bind

ASSUME StoreAssumption ==
    /\ Segments \subseteq Segment
    /\ IndexVersions \subseteq Versions
    /\ SqlIntMax \in Nat

VARIABLES
    catalog_items, provider_state, applied_segments,
    call,   \* the operation a connection is executing, or None
    tx,     \* its transaction's copy of the tables, or None
    done    \* the statements its transaction has executed

tables == <<catalog_items, provider_state, applied_segments>>
vars == <<tables, call, tx, done>>

ApplyCall == [op : {"apply"}, provider_id : Providers, segment : Segments,
              digest : Digests, index_version : IndexVersions]
RecordCall == [op : {"record"}, provider_id : Providers, status : Statuses,
               index_version : IndexVersions \union {None}]
Tables == [catalog_items : [Providers -> [Items -> Row \union {None}]],
           provider_state : [Providers -> ProviderState \union {None}],
           applied_segments : [Providers -> SUBSET AuditRow]]

(* No call is in progress, or no transaction open: None is neither. *)
ASSUME NoCallAssumption == None \notin ApplyCall \union RecordCall \union Tables

Committed == [catalog_items |-> catalog_items,
              provider_state |-> provider_state,
              applied_segments |-> applied_segments]

TypeOK ==
    /\ Committed \in Tables
    /\ call \in [Connections -> ApplyCall \union RecordCall \union {None}]
    /\ tx \in [Connections -> Tables \union {None}]
    /\ done \in [Connections -> Nat]

Init ==
    /\ catalog_items = [p \in Providers |-> NoRows]
    /\ provider_state = [p \in Providers |-> None]
    /\ applied_segments = [p \in Providers |-> {}]
    /\ call = [c \in Connections |-> None]
    /\ tx = [c \in Connections |-> None]
    /\ done = [c \in Connections |-> 0]

(* The statements of a call, in order: the upserts, the removals, the      *)
(* audit row, the progress row.  record_crawl_result has the last only.    *)
Upserts(op) == Len(op.segment.upserts)
Removals(op) == Len(op.segment.removals)
AuditStatement(op) == Upserts(op) + Removals(op)
Statements(op) == IF op.op = "apply" THEN AuditStatement(op) + 2 ELSE 1

InTransaction(c) == call[c] # None /\ tx[c] # None
Applying(c) == InTransaction(c) /\ call[c].op = "apply"
Fits(index_version) == IF index_version = None THEN TRUE ELSE index_version <= SqlIntMax

(* A statement rewrites tx[c] and nothing else. *)
Execute(c, new) ==
    /\ tx' = [tx EXCEPT ![c] = new]
    /\ done' = [done EXCEPT ![c] = @ + 1]
    /\ UNCHANGED <<tables, call>>

(* The connection's operation is over; the exception, if any, has left it. *)
Return(c) ==
    /\ call' = [call EXCEPT ![c] = None]
    /\ tx' = [tx EXCEPT ![c] = None]
    /\ done' = [done EXCEPT ![c] = 0]

---------------------------------------------------------------------------
Call(c) ==
    /\ call[c] = None
    /\ call' \in {[call EXCEPT ![c] = op] : op \in ApplyCall \union RecordCall}
    /\ UNCHANGED <<tables, tx, done>>

(* Mutant: BEGIN DEFERRED takes no lock. *)
BeginDeferred(c) ==
    /\ call[c] # None /\ tx[c] = None
    /\ tx' = [tx EXCEPT ![c] = Committed]
    /\ UNCHANGED <<tables, call, done>>

(* BEGIN IMMEDIATE succeeds only while no other connection is writing. *)
Begin(c) ==
    /\ call[c] # None
    /\ \A d \in Connections : tx[d] = None
    /\ tx' = [tx EXCEPT ![c] = Committed]
    /\ UNCHANGED <<tables, call, done>>

(* The lock stays taken past the driver's busy timeout: StorageError. *)
BeginBusy(c) ==
    /\ call[c] # None /\ tx[c] = None
    /\ \E d \in Connections : tx[d] # None
    /\ Return(c)
    /\ UNCHANGED tables

UpsertItem(c) ==
    LET op == call[c]
        item == op.segment.upserts[done[c] + 1]
    IN  /\ Applying(c) /\ done[c] < Upserts(op)
        /\ Execute(c, [tx[c] EXCEPT !.catalog_items[op.provider_id] =
                           UpsertRow(@, item, op.segment.version)])

RemoveItem(c) ==
    LET op == call[c]
        item_id == op.segment.removals[done[c] + 1 - Upserts(op)]
    IN  /\ Applying(c) /\ Upserts(op) <= done[c] /\ done[c] < AuditStatement(op)
        /\ Execute(c, [tx[c] EXCEPT !.catalog_items[op.provider_id] =
                           DeleteRow(@, item_id)])

WriteAudit(c) ==
    LET op == call[c] IN
    /\ Applying(c) /\ done[c] = AuditStatement(op)
    /\ Execute(c, [tx[c] EXCEPT !.applied_segments[op.provider_id] =
                       UpsertAudit(@, op.segment.version, op.digest)])

(* An index version that does not fit raises OverflowError: see Rollback. *)
WriteMarker(c) ==
    LET op == call[c] IN
    /\ Applying(c) /\ done[c] = AuditStatement(op) + 1
    /\ Fits(op.index_version)
    /\ Execute(c, [tx[c] EXCEPT !.provider_state[op.provider_id] =
                       AdvanceMarker(@, op.segment.version, op.index_version)])

WriteResult(c) ==
    LET op == call[c] IN
    /\ InTransaction(c) /\ op.op = "record" /\ done[c] = 0
    /\ Fits(op.index_version)
    /\ Execute(c, [tx[c] EXCEPT !.provider_state[op.provider_id] =
                       NoteResult(@, op.status, op.index_version)])

Commit(c) ==
    /\ InTransaction(c) /\ done[c] = Statements(call[c])
    /\ catalog_items' = tx[c].catalog_items
    /\ provider_state' = tx[c].provider_state
    /\ applied_segments' = tx[c].applied_segments
    /\ Return(c)

(* Mutant: autocommit, nothing to roll back. *)
RollbackKeeping(c) ==
    /\ InTransaction(c)
    /\ catalog_items' = tx[c].catalog_items
    /\ provider_state' = tx[c].provider_state
    /\ applied_segments' = tx[c].applied_segments
    /\ Return(c)

(* A statement raises (sqlite3.Error, OverflowError, an interrupt): the    *)
(* context manager rolls back whatever was executed before it.  COMMIT may *)
(* raise too, and then SQLite itself has rolled back (WAL mode).           *)
Rollback(c) ==
    /\ InTransaction(c)
    /\ Return(c)
    /\ UNCHANGED tables

(* The process is killed; the next connection recovers the committed state. *)
Kill(c) ==
    /\ call[c] # None
    /\ Return(c)
    /\ UNCHANGED tables

Next == \E c \in Connections :
    \/ Call(c) \/ Begin(c) \/ BeginBusy(c)
    \/ UpsertItem(c) \/ RemoveItem(c) \/ WriteAudit(c) \/ WriteMarker(c)
    \/ WriteResult(c)
    \/ Commit(c) \/ Rollback(c) \/ Kill(c)

Spec == Init /\ [][Next]_vars

---------------------------------------------------------------------------
Promise == INSTANCE Catalog

(* apply_segment and record_crawl_result are atomic: whatever statements   *)
(* of other connections, exceptions and kills fall between theirs, the     *)
(* committed database moves only by one whole operation of Catalog.        *)
Atomicity == Promise!Spec

(* The three relations Catalog promises between the committed tables.      *)
MarkerIsNewestAudit == Promise!MarkerIsNewestAudit
RowsAreAudited == Promise!RowsAreAudited
OneAuditPerVersion == Promise!OneAuditPerVersion
MarkerNeverRewinds == Promise!MarkerNeverRewinds

SingleWriter ==
    \A c, d \in Connections : tx[c] # None /\ tx[d] # None => c = d

(* The first n statements of a call, in closed form: what they make of its *)
(* provider's rows, audit rows and progress row.                           *)
RowsAfter(rows, op, n) ==
    IF op.op = "record" THEN rows
    ELSE IF n <= Upserts(op) THEN AfterUpserts(rows, op.segment, n)
    ELSE AfterRemovals(AfterUpserts(rows, op.segment, Upserts(op)), op.segment,
             IF n <= AuditStatement(op) THEN n - Upserts(op) ELSE Removals(op))
AuditAfter(rows, op, n) ==
    IF op.op = "record" THEN rows
    ELSE IF n <= AuditStatement(op) THEN rows
    ELSE UpsertAudit(rows, op.segment.version, op.digest)
StateAfter(state, op, n) ==
    IF n < Statements(op) THEN state
    ELSE IF op.op = "record" THEN NoteResult(state, op.status, op.index_version)
    ELSE AdvanceMarker(state, op.segment.version, op.index_version)

After(op, n) ==
    [catalog_items |->
         [catalog_items EXCEPT ![op.provider_id] = RowsAfter(@, op, n)],
     provider_state |->
         [provider_state EXCEPT ![op.provider_id] = StateAfter(@, op, n)],
     applied_segments |->
         [applied_segments EXCEPT ![op.provider_id] = AuditAfter(@, op, n)]]

(* What an open transaction holds is the committed database with exactly   *)
(* the executed statements of its call applied to it.                      *)
IsPrefix(c) == call[c] # None /\ tx[c] = After(call[c], done[c])

TransactionIsPrefix == \A c \in Connections : tx[c] # None => IsPrefix(c)

(* One writer at a time, and its copy is based on what is still committed: *)
(* no committed operation is lost under a concurrent one.                  *)
Isolation == SingleWriter /\ TransactionIsPrefix
=============================================================================
