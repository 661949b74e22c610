------------------------- MODULE CatalogStoreProofs -------------------------
(***************************************************************************)
(* CatalogStore implements Catalog for any number of connections, any      *)
(* segments and any interleaving of their statements.                      *)
(***************************************************************************)
EXTENDS CatalogStore, CatalogTablesProofs

Calls == ApplyCall \union RecordCall

(* Beyond the types: a transaction has executed a prefix of its call's     *)
(* statements on the tables as they are still committed.                   *)
Progress(c) ==
    /\ tx[c] = None => done[c] = 0
    /\ tx[c] # None => IsPrefix(c) /\ done[c] \in 0..Statements(call[c])

Inv == TypeOK /\ SingleWriter /\ \A c \in Connections : Progress(c)

---------------------------------------------------------------------------
(* The statements of a call. *)

LEMMA ApplyCallFields ==
    ASSUME NEW op \in ApplyCall
    PROVE  /\ op.op = "apply" /\ op.op # "record"
           /\ op.provider_id \in Providers
           /\ op.segment \in Segments /\ op.segment \in Segment
           /\ op.segment.version \in Versions
           /\ op.digest \in Digests
           /\ op.index_version \in IndexVersions /\ op.index_version \in Versions
           /\ Upserts(op) \in Nat /\ Removals(op) \in Nat
           /\ AuditStatement(op) = Upserts(op) + Removals(op)
           /\ Statements(op) = Upserts(op) + Removals(op) + 2
  <1>1. /\ op.op = "apply"
        /\ op.provider_id \in Providers
        /\ op.segment \in Segments
        /\ op.digest \in Digests
        /\ op.index_version \in IndexVersions
    BY DEF ApplyCall
  <1>2. op.segment \in Segment /\ op.index_version \in Versions BY <1>1, StoreAssumption
  <1>3. Upserts(op) \in Nat /\ Removals(op) \in Nat /\ op.segment.version \in Versions
    BY <1>2, SegmentFields DEF Upserts, Removals
  <1> QED BY <1>1, <1>2, <1>3 DEF AuditStatement, Statements

LEMMA RecordCallFields ==
    ASSUME NEW op \in RecordCall
    PROVE  /\ op.op = "record"
           /\ op.provider_id \in Providers
           /\ op.status \in Statuses
           /\ op.index_version \in IndexVersions \union {None}
           /\ op.index_version \in Versions \union {None}
           /\ Statements(op) = 1
  BY StoreAssumption DEF RecordCall, Statements

(* The tables reached so far are tables.                                   *)
LEMMA AfterType ==
    ASSUME TypeOK, NEW op \in Calls, NEW n \in 0..Statements(op)
    PROVE  After(op, n) \in Tables
  <1> DEFINE p == op.provider_id
  <1>1. p \in Providers BY ApplyCallFields, RecordCallFields DEF Calls
  <1>2. /\ catalog_items \in [Providers -> Rows]
        /\ provider_state \in [Providers -> States]
        /\ applied_segments \in [Providers -> SUBSET AuditRow]
    BY DEF TypeOK, Committed, Tables, Rows, States
  <1>3. /\ RowsAfter(catalog_items[p], op, n) \in Rows
        /\ StateAfter(provider_state[p], op, n) \in States
        /\ AuditAfter(applied_segments[p], op, n) \in SUBSET AuditRow
    <2>0. /\ catalog_items[p] \in Rows /\ provider_state[p] \in States
          /\ applied_segments[p] \in SUBSET AuditRow
      BY <1>1, <1>2
    <2>1. CASE op \in ApplyCall
      <3>1. RowsAfter(catalog_items[p], op, n) \in Rows
        <4>1. /\ op.op # "record" /\ op.segment \in Segment
              /\ Upserts(op) \in 0..Len(op.segment.upserts)
              /\ n <= Upserts(op) => n \in 0..Len(op.segment.upserts)
          BY <2>1, ApplyCallFields DEF Upserts
        <4>2. \A k \in 0..Len(op.segment.upserts) :
                 AfterUpserts(catalog_items[p], op.segment, k) \in Rows
          BY <2>0, <4>1, AfterUpsertsType
        <4>3. \A k : AfterRemovals(AfterUpserts(catalog_items[p], op.segment, Upserts(op)),
                                   op.segment, k) \in Rows
          BY <4>1, <4>2, AfterRemovalsType
        <4> QED BY <4>1, <4>2, <4>3 DEF RowsAfter
      <3>2. StateAfter(provider_state[p], op, n) \in States
        BY <2>0, <2>1, ApplyCallFields, AdvanceMarkerFacts DEF StateAfter, States
      <3>3. AuditAfter(applied_segments[p], op, n) \in SUBSET AuditRow
        BY <2>0, <2>1, ApplyCallFields, UpsertAuditFacts DEF AuditAfter
      <3> QED BY <3>1, <3>2, <3>3
    <2>2. CASE op \in RecordCall
      BY <2>0, <2>2, RecordCallFields, NoteResultFacts
         DEF RowsAfter, StateAfter, AuditAfter, States
    <2> QED BY <2>1, <2>2 DEF Calls
  <1> HIDE DEF p
  <1>4. /\ [catalog_items EXCEPT ![p] = RowsAfter(@, op, n)] \in [Providers -> Rows]
        /\ [provider_state EXCEPT ![p] = StateAfter(@, op, n)] \in [Providers -> States]
        /\ [applied_segments EXCEPT ![p] = AuditAfter(@, op, n)]
              \in [Providers -> SUBSET AuditRow]
    BY <1>1, <1>2, <1>3
  <1> QED BY <1>4 DEF After, Tables, Rows, States, p

(* Before its first statement a transaction holds the committed tables.    *)
LEMMA AfterNothing ==
    ASSUME TypeOK, NEW op \in Calls
    PROVE  After(op, 0) = Committed
  <1> DEFINE p == op.provider_id
  <1>1. p \in Providers BY ApplyCallFields, RecordCallFields DEF Calls
  <1>2. /\ catalog_items \in [Providers -> Rows]
        /\ provider_state \in [Providers -> States]
        /\ applied_segments \in [Providers -> SUBSET AuditRow]
    BY DEF TypeOK, Committed, Tables, Rows, States
  <1>3. RowsAfter(catalog_items[p], op, 0) = catalog_items[p]
    <2>1. CASE op \in ApplyCall
      <3>1. AfterUpserts(catalog_items[p], op.segment, 0) = catalog_items[p]
        BY <1>1, <1>2, NoUpsertsYet
      <3>2. op.op # "record" /\ 0 <= Upserts(op) BY <2>1, ApplyCallFields
      <3> QED BY <3>1, <3>2 DEF RowsAfter
    <2>2. CASE op \in RecordCall BY <2>2, RecordCallFields DEF RowsAfter
    <2> QED BY <2>1, <2>2 DEF Calls
  <1>4. 0 < Statements(op) BY ApplyCallFields, RecordCallFields DEF Calls
  <1>5. AuditAfter(applied_segments[p], op, 0) = applied_segments[p]
    <2>1. CASE op \in ApplyCall
      <3>1. 0 <= AuditStatement(op) BY <2>1, ApplyCallFields
      <3> QED BY <3>1 DEF AuditAfter
    <2>2. CASE op \in RecordCall BY <2>2, RecordCallFields DEF AuditAfter
    <2> QED BY <2>1, <2>2 DEF Calls
  <1>6. StateAfter(provider_state[p], op, 0) = provider_state[p] BY <1>4 DEF StateAfter
  <1> HIDE DEF p
  <1>7. /\ [catalog_items EXCEPT ![p] = RowsAfter(@, op, 0)] = catalog_items
        /\ [provider_state EXCEPT ![p] = StateAfter(@, op, 0)] = provider_state
        /\ [applied_segments EXCEPT ![p] = AuditAfter(@, op, 0)] = applied_segments
    BY <1>1, <1>2, <1>3, <1>5, <1>6
  <1> QED BY <1>7 DEF After, Committed, p

---------------------------------------------------------------------------
(* Steps that leave the committed tables alone. *)

LEMMA CommittedTables ==
    ASSUME UNCHANGED tables
    PROVE  /\ Committed' = Committed
           /\ \A op, n : After(op, n)' = After(op, n)
  BY DEF tables, Committed, After

(* A connection whose three variables did not change is where it was. *)
LEMMA ProgressUntouched ==
    ASSUME UNCHANGED tables, NEW d \in Connections, Progress(d),
           call'[d] = call[d], tx'[d] = tx[d], done'[d] = done[d]
    PROVE  Progress(d)'
  <1>1. IsPrefix(d)' <=> IsPrefix(d)
    BY CommittedTables DEF IsPrefix
  <1> QED BY <1>1 DEF Progress

(* A connection with no transaction open does not look at the tables. *)
LEMMA ProgressIdle ==
    ASSUME NEW d \in Connections, tx[d] = None, Progress(d),
           tx'[d] = tx[d], done'[d] = done[d]
    PROVE  Progress(d)'
  BY DEF Progress

(* Whoever returns has nothing open; nobody else is disturbed, unless the  *)
(* tables changed under a transaction.                                     *)
LEMMA ReturnKeeps ==
    ASSUME Inv, NEW c \in Connections, Return(c), (Committed \in Tables)',
           \A d \in Connections \ {c} : Progress(d)'
    PROVE  Inv'
  <1>1. /\ call' = [call EXCEPT ![c] = None]
        /\ tx' = [tx EXCEPT ![c] = None]
        /\ done' = [done EXCEPT ![c] = 0]
    BY DEF Return
  <1>2. TypeOK' BY <1>1 DEF Inv, TypeOK
  <1>3. SingleWriter' BY <1>1 DEF Inv, TypeOK, SingleWriter
  <1>4. Progress(c)' BY <1>1 DEF Inv, TypeOK, Progress
  <1> QED BY <1>2, <1>3, <1>4 DEF Inv

(* BeginBusy, Rollback and Kill: the operation ends without a trace.       *)
LEMMA AbandonKeeps ==
    ASSUME Inv, NEW c \in Connections, Return(c), UNCHANGED tables
    PROVE  Inv'
  <1>1. (Committed \in Tables)' BY CommittedTables DEF Inv, TypeOK
  <1>2. ASSUME NEW d \in Connections \ {c} PROVE Progress(d)'
    <2>1. call'[d] = call[d] /\ tx'[d] = tx[d] /\ done'[d] = done[d]
      BY DEF Return, Inv, TypeOK
    <2> QED BY <2>1, ProgressUntouched DEF Inv
  <1> QED BY <1>1, <1>2, ReturnKeeps

LEMMA CallKeeps ==
    ASSUME Inv, NEW c \in Connections, Call(c)
    PROVE  Inv'
  <1>1. PICK op \in Calls : call' = [call EXCEPT ![c] = op] BY DEF Call, Calls
  <1>2. UNCHANGED <<tables, tx, done>> BY DEF Call
  <1>3. TypeOK'
    <2>1. (Committed \in Tables)' BY <1>2, CommittedTables DEF Inv, TypeOK
    <2> QED BY <1>1, <1>2, <2>1 DEF Inv, TypeOK, Calls
  <1>4. SingleWriter' BY <1>2 DEF Inv, SingleWriter
  <1>5. ASSUME NEW d \in Connections PROVE Progress(d)'
    <2>1. CASE d = c
      <3>1. call[c] = None BY DEF Call
      <3>2. tx[c] = None BY <3>1 DEF Inv, Progress, IsPrefix
      <3> QED BY <1>2, <2>1, <3>2, ProgressIdle DEF Inv
    <2>2. CASE d # c
      <3>1. call'[d] = call[d] BY <1>1, <2>2 DEF Inv, TypeOK
      <3> QED BY <1>2, <3>1, ProgressUntouched DEF Inv
    <2> QED BY <2>1, <2>2
  <1> QED BY <1>3, <1>4, <1>5 DEF Inv

LEMMA BeginKeeps ==
    ASSUME Inv, NEW c \in Connections, Begin(c)
    PROVE  Inv'
  <1>1. /\ call[c] # None
        /\ \A d \in Connections : tx[d] = None
        /\ tx' = [tx EXCEPT ![c] = Committed]
        /\ UNCHANGED <<tables, call, done>>
    BY DEF Begin
  <1>2. call[c] \in Calls BY <1>1 DEF Inv, TypeOK, Calls
  <1>3. TypeOK'
    <2>1. (Committed \in Tables)' BY <1>1, CommittedTables DEF Inv, TypeOK
    <2> QED BY <1>1, <2>1 DEF Inv, TypeOK
  <1>4. SingleWriter' BY <1>1 DEF Inv, TypeOK, SingleWriter
  <1>5. ASSUME NEW d \in Connections PROVE Progress(d)'
    <2>1. CASE d = c
      <3>1. tx'[c] = Committed /\ done'[c] = 0
        BY <1>1 DEF Inv, TypeOK, Progress
      <3>2. Committed = After(call[c], 0)' BY <1>1, <1>2, AfterNothing, CommittedTables DEF Inv
      <3>3. Statements(call[c]) \in Nat /\ Statements(call[c]) > 0
        BY <1>2, ApplyCallFields, RecordCallFields DEF Calls
      <3>4. Committed # None BY NoCallAssumption DEF Inv, TypeOK
      <3>5. IsPrefix(c)' BY <1>1, <3>1, <3>2 DEF IsPrefix
      <3> QED BY <1>1, <2>1, <3>1, <3>3, <3>4, <3>5 DEF Progress
    <2>2. CASE d # c
      <3>1. tx'[d] = tx[d] /\ tx[d] = None BY <1>1, <2>2 DEF Inv, TypeOK
      <3> QED BY <1>1, <3>1, ProgressIdle DEF Inv
    <2> QED BY <2>1, <2>2
  <1> QED BY <1>3, <1>4, <1>5 DEF Inv

---------------------------------------------------------------------------
(* Statements. *)

(* One more statement of the call has been executed, and no other.         *)
LEMMA ExecuteKeeps ==
    ASSUME Inv, NEW c \in Connections, InTransaction(c),
           done[c] < Statements(call[c]),
           Execute(c, After(call[c], done[c] + 1))
    PROVE  Inv'
  <1> DEFINE new == After(call[c], done[c] + 1)
  <1>1. /\ tx' = [tx EXCEPT ![c] = new]
        /\ done' = [done EXCEPT ![c] = @ + 1]
        /\ UNCHANGED tables /\ UNCHANGED call
    BY DEF Execute
  <1>2. call[c] \in Calls /\ tx[c] # None /\ done[c] \in Nat
    BY DEF InTransaction, Inv, TypeOK, Calls
  <1>3. done[c] + 1 \in 0..Statements(call[c])
    BY <1>2, ApplyCallFields, RecordCallFields DEF Calls
  <1>4. new \in Tables BY <1>2, <1>3, AfterType DEF Inv
  <1>5. new # None BY <1>4, NoCallAssumption
  <1>6. TypeOK'
    <2>1. (Committed \in Tables)' BY <1>1, CommittedTables DEF Inv, TypeOK
    <2> HIDE DEF new
    <2> QED BY <1>1, <1>2, <1>4, <2>1 DEF Inv, TypeOK
  <1>7. SingleWriter'
    <2> HIDE DEF new
    <2> QED BY <1>1, <1>2 DEF Inv, TypeOK, SingleWriter
  <1>8. ASSUME NEW d \in Connections PROVE Progress(d)'
    <2>1. CASE d = c
      <3>1. tx'[c] = new /\ done'[c] = done[c] + 1
        <4> HIDE DEF new
        <4> QED BY <1>1 DEF Inv, TypeOK
      <3>3. IsPrefix(c)'
        <4>1. call'[c] # None BY <1>1 DEF InTransaction
        <4>2. tx'[c] = After(call'[c], done'[c]) BY <1>1, <3>1
        <4> QED BY <1>1, <4>1, <4>2 DEF IsPrefix, After, tables
      <3>4. done'[c] \in 0..Statements(call'[c]) BY <1>1, <1>3, <3>1
      <3> HIDE DEF new
      <3> QED BY <1>5, <2>1, <3>1, <3>3, <3>4 DEF Progress
    <2>2. CASE d # c
      <3>1. call'[d] = call[d] /\ tx'[d] = tx[d] /\ done'[d] = done[d]
        <4> HIDE DEF new
        <4> QED BY <1>1, <2>2 DEF Inv, TypeOK
      <3> QED BY <1>1, <3>1, ProgressUntouched DEF Inv
    <2> QED BY <2>1, <2>2
  <1> QED BY <1>6, <1>7, <1>8 DEF Inv

(* The copy a transaction holds, table by table.                           *)
LEMMA TransactionTables ==
    ASSUME Inv, NEW c \in Connections, InTransaction(c)
    PROVE  LET op == call[c]
               n == done[c]
               p == op.provider_id
           IN  /\ op \in Calls /\ p \in Providers /\ n \in 0..Statements(op)
               /\ catalog_items[p] \in Rows
               /\ catalog_items \in [Providers -> Rows]
               /\ provider_state \in [Providers -> States]
               /\ applied_segments \in [Providers -> SUBSET AuditRow]
               /\ tx[c] = After(op, n)
  <1>1. call[c] \in Calls BY DEF InTransaction, Inv, TypeOK, Calls
  <1>2. call[c].provider_id \in Providers
    BY <1>1, ApplyCallFields, RecordCallFields DEF Calls
  <1>3. /\ catalog_items \in [Providers -> Rows]
        /\ provider_state \in [Providers -> States]
        /\ applied_segments \in [Providers -> SUBSET AuditRow]
    BY DEF Inv, TypeOK, Committed, Tables, Rows, States
  <1>4. tx[c] = After(call[c], done[c]) /\ done[c] \in 0..Statements(call[c])
    BY DEF InTransaction, Inv, Progress, IsPrefix
  <1> QED BY <1>1, <1>2, <1>3, <1>4

(* What EXCEPT does to one entry of one of the tables.                     *)
LEMMA TableExcept ==
    ASSUME NEW t, NEW a, NEW b, NEW s, NEW p, NEW x,
           t = [catalog_items |-> a, provider_state |-> s, applied_segments |-> b]
    PROVE  /\ [t EXCEPT !.catalog_items[p] = x]
                = [catalog_items |-> [a EXCEPT ![p] = x],
                   provider_state |-> s, applied_segments |-> b]
           /\ [t EXCEPT !.provider_state[p] = x]
                = [catalog_items |-> a, provider_state |-> [s EXCEPT ![p] = x],
                   applied_segments |-> b]
           /\ [t EXCEPT !.applied_segments[p] = x]
                = [catalog_items |-> a, provider_state |-> s,
                   applied_segments |-> [b EXCEPT ![p] = x]]
  <1>1. t.catalog_items = a /\ t.provider_state = s /\ t.applied_segments = b OBVIOUS
  <1>2. ASSUME NEW y
        PROVE  /\ [t EXCEPT !.catalog_items = y]
                    = [catalog_items |-> y, provider_state |-> s, applied_segments |-> b]
               /\ [t EXCEPT !.provider_state = y]
                    = [catalog_items |-> a, provider_state |-> y, applied_segments |-> b]
               /\ [t EXCEPT !.applied_segments = y]
                    = [catalog_items |-> a, provider_state |-> s, applied_segments |-> y]
    OBVIOUS
  <1> QED BY <1>1, <1>2

(* What a transaction reads of its call's provider.                        *)
LEMMA TransactionReads ==
    ASSUME Inv, NEW c \in Connections, InTransaction(c)
    PROVE  LET op == call[c]
               n == done[c]
               p == op.provider_id
           IN  /\ tx[c].catalog_items[p] = RowsAfter(catalog_items[p], op, n)
               /\ tx[c].provider_state[p] = StateAfter(provider_state[p], op, n)
               /\ tx[c].applied_segments[p] = AuditAfter(applied_segments[p], op, n)
  <1> DEFINE op == call[c]
             n == done[c]
             p == op.provider_id
  <1>1. /\ p \in Providers
        /\ catalog_items \in [Providers -> Rows]
        /\ provider_state \in [Providers -> States]
        /\ applied_segments \in [Providers -> SUBSET AuditRow]
        /\ tx[c] = After(op, n)
    BY TransactionTables
  <1>2. /\ tx[c].catalog_items = [catalog_items EXCEPT ![p] = RowsAfter(@, op, n)]
        /\ tx[c].provider_state = [provider_state EXCEPT ![p] = StateAfter(@, op, n)]
        /\ tx[c].applied_segments = [applied_segments EXCEPT ![p] = AuditAfter(@, op, n)]
    BY <1>1 DEF After
  <1> HIDE DEF op, n, p
  <1>3. /\ tx[c].catalog_items[p] = RowsAfter(catalog_items[p], op, n)
        /\ tx[c].provider_state[p] = StateAfter(provider_state[p], op, n)
        /\ tx[c].applied_segments[p] = AuditAfter(applied_segments[p], op, n)
    BY <1>1, <1>2
  <1> QED BY <1>3 DEF op, n, p

(* A statement that rewrites an entry of one table is the next one of its  *)
(* call if it makes of the entry what the closed form does.                *)
LEMMA NextStatement ==
    ASSUME Inv, NEW c \in Connections, InTransaction(c), NEW x
    PROVE  LET op == call[c]
               n == done[c]
               p == op.provider_id
               Next1 == x = RowsAfter(catalog_items[p], op, n + 1)
               Same1 == RowsAfter(catalog_items[p], op, n + 1)
                           = RowsAfter(catalog_items[p], op, n)
               Next2 == x = StateAfter(provider_state[p], op, n + 1)
               Same2 == StateAfter(provider_state[p], op, n + 1)
                           = StateAfter(provider_state[p], op, n)
               Next3 == x = AuditAfter(applied_segments[p], op, n + 1)
               Same3 == AuditAfter(applied_segments[p], op, n + 1)
                           = AuditAfter(applied_segments[p], op, n)
           IN  /\ Next1 /\ Same2 /\ Same3 =>
                     [tx[c] EXCEPT !.catalog_items[p] = x] = After(op, n + 1)
               /\ Same1 /\ Next2 /\ Same3 =>
                     [tx[c] EXCEPT !.provider_state[p] = x] = After(op, n + 1)
               /\ Same1 /\ Same2 /\ Next3 =>
                     [tx[c] EXCEPT !.applied_segments[p] = x] = After(op, n + 1)
  <1> DEFINE op == call[c]
             n == done[c]
             p == op.provider_id
             a == [catalog_items EXCEPT ![p] = RowsAfter(@, op, n)]
             s == [provider_state EXCEPT ![p] = StateAfter(@, op, n)]
             b == [applied_segments EXCEPT ![p] = AuditAfter(@, op, n)]
             a1 == [catalog_items EXCEPT ![p] = RowsAfter(@, op, n + 1)]
             s1 == [provider_state EXCEPT ![p] = StateAfter(@, op, n + 1)]
             b1 == [applied_segments EXCEPT ![p] = AuditAfter(@, op, n + 1)]
  <1>1. /\ p \in Providers
        /\ catalog_items \in [Providers -> Rows]
        /\ provider_state \in [Providers -> States]
        /\ applied_segments \in [Providers -> SUBSET AuditRow]
        /\ tx[c] = After(op, n)
    BY TransactionTables
  <1>2. tx[c] = [catalog_items |-> a, provider_state |-> s, applied_segments |-> b]
    BY <1>1 DEF After
  <1>3. After(op, n + 1)
           = [catalog_items |-> a1, provider_state |-> s1, applied_segments |-> b1]
    BY DEF After
  <1>4. /\ x = RowsAfter(catalog_items[p], op, n + 1) => [a EXCEPT ![p] = x] = a1
        /\ x = StateAfter(provider_state[p], op, n + 1) => [s EXCEPT ![p] = x] = s1
        /\ x = AuditAfter(applied_segments[p], op, n + 1) => [b EXCEPT ![p] = x] = b1
    <2> HIDE DEF op, n, p
    <2> QED BY <1>1
  <1>5. /\ RowsAfter(catalog_items[p], op, n + 1) = RowsAfter(catalog_items[p], op, n)
              => a = a1
        /\ StateAfter(provider_state[p], op, n + 1) = StateAfter(provider_state[p], op, n)
              => s = s1
        /\ AuditAfter(applied_segments[p], op, n + 1) = AuditAfter(applied_segments[p], op, n)
              => b = b1
    OBVIOUS
  <1> HIDE DEF a, s, b, a1, s1, b1, op, n, p
  <1>6. /\ [tx[c] EXCEPT !.catalog_items[p] = x]
              = [catalog_items |-> [a EXCEPT ![p] = x],
                 provider_state |-> s, applied_segments |-> b]
        /\ [tx[c] EXCEPT !.provider_state[p] = x]
              = [catalog_items |-> a, provider_state |-> [s EXCEPT ![p] = x],
                 applied_segments |-> b]
        /\ [tx[c] EXCEPT !.applied_segments[p] = x]
              = [catalog_items |-> a, provider_state |-> s,
                 applied_segments |-> [b EXCEPT ![p] = x]]
    BY <1>2, TableExcept
  <1> QED BY <1>3, <1>4, <1>5, <1>6, Zenon DEF op, n, p

---------------------------------------------------------------------------
(* Each statement of the code is the next one of the closed forms. *)

LEMMA UpsertItemKeeps ==
    ASSUME Inv, NEW c \in Connections, UpsertItem(c)
    PROVE  Inv'
  <1> DEFINE op == call[c]
             n == done[c]
             p == op.provider_id
             x == UpsertRow(tx[c].catalog_items[p], op.segment.upserts[n + 1],
                            op.segment.version)
  <1>1. /\ InTransaction(c) /\ op.op = "apply" /\ n < Upserts(op)
        /\ Execute(c, [tx[c] EXCEPT !.catalog_items[p] = x])
    BY DEF UpsertItem, Applying
  <1>2. op \in ApplyCall /\ n \in Nat /\ catalog_items[p] \in Rows
    BY <1>1, TransactionTables, RecordCallFields DEF Calls, Inv, TypeOK
  <1>3. /\ op.segment \in Segment /\ op.op # "record"
        /\ Upserts(op) \in Nat /\ Removals(op) \in Nat
        /\ AuditStatement(op) = Upserts(op) + Removals(op)
        /\ Statements(op) = Upserts(op) + Removals(op) + 2
    BY <1>2, ApplyCallFields
  <1>4. n \in 0..(Len(op.segment.upserts) - 1) BY <1>1, <1>2, <1>3 DEF Upserts
  <1>5. x = RowsAfter(catalog_items[p], op, n + 1)
    <2>1. tx[c].catalog_items[p] = RowsAfter(catalog_items[p], op, n)
      BY <1>1, TransactionReads
    <2>2. RowsAfter(catalog_items[p], op, n) = AfterUpserts(catalog_items[p], op.segment, n)
      BY <1>1, <1>2, <1>3 DEF RowsAfter
    <2>3. n + 1 <= Upserts(op) BY <1>1, <1>2, <1>3
    <2>4. RowsAfter(catalog_items[p], op, n + 1)
             = AfterUpserts(catalog_items[p], op.segment, n + 1)
      BY <1>3, <2>3 DEF RowsAfter
    <2>5. AfterUpserts(catalog_items[p], op.segment, n + 1)
             = UpsertRow(AfterUpserts(catalog_items[p], op.segment, n),
                         op.segment.upserts[n + 1], op.segment.version)
      BY <1>2, <1>3, <1>4, NextUpsert
    <2> QED BY <2>1, <2>2, <2>4, <2>5
  <1>6. /\ n < Statements(op) /\ n + 1 < Statements(op)
        /\ n <= AuditStatement(op) /\ n + 1 <= AuditStatement(op)
    BY <1>1, <1>2, <1>3
  <1>7. /\ StateAfter(provider_state[p], op, n + 1) = StateAfter(provider_state[p], op, n)
        /\ AuditAfter(applied_segments[p], op, n + 1) = AuditAfter(applied_segments[p], op, n)
    BY <1>6 DEF StateAfter, AuditAfter
  <1>8. [tx[c] EXCEPT !.catalog_items[p] = x] = After(op, n + 1)
    <2> HIDE DEF x
    <2> QED BY <1>1, <1>5, <1>7, NextStatement
  <1> HIDE DEF x
  <1> QED BY <1>1, <1>6, <1>8, ExecuteKeeps

LEMMA RemoveItemKeeps ==
    ASSUME Inv, NEW c \in Connections, RemoveItem(c)
    PROVE  Inv'
  <1> DEFINE op == call[c]
             n == done[c]
             p == op.provider_id
             k == n - Upserts(op)
             x == DeleteRow(tx[c].catalog_items[p],
                            op.segment.removals[n + 1 - Upserts(op)])
             merged == AfterUpserts(catalog_items[p], op.segment, Upserts(op))
  <1>1. /\ InTransaction(c) /\ op.op = "apply"
        /\ Upserts(op) <= n /\ n < AuditStatement(op)
        /\ Execute(c, [tx[c] EXCEPT !.catalog_items[p] = x])
    BY DEF RemoveItem, Applying
  <1>2. op \in ApplyCall /\ n \in Nat /\ catalog_items[p] \in Rows
    BY <1>1, TransactionTables, RecordCallFields DEF Calls, Inv, TypeOK
  <1>3. /\ op.segment \in Segment /\ op.op # "record"
        /\ Upserts(op) \in Nat /\ Removals(op) \in Nat
        /\ AuditStatement(op) = Upserts(op) + Removals(op)
        /\ Statements(op) = Upserts(op) + Removals(op) + 2
    BY <1>2, ApplyCallFields
  <1>4. /\ k \in Nat /\ k < Removals(op) /\ n + 1 - Upserts(op) = k + 1
        /\ k \in 0..(Len(op.segment.removals) - 1)
    <2>1. Upserts(op) <= n /\ n < Upserts(op) + Removals(op) BY <1>1, <1>3
    <2> QED BY <1>2, <1>3, <2>1 DEF Removals
  <1>5. merged \in Rows
    <2>1. Upserts(op) \in 0..Len(op.segment.upserts) BY <1>3 DEF Upserts
    <2> QED BY <1>2, <1>3, <2>1, AfterUpsertsType
  <1>6. x = RowsAfter(catalog_items[p], op, n + 1)
    <2>1. tx[c].catalog_items[p] = RowsAfter(catalog_items[p], op, n)
      BY <1>1, TransactionReads
    <2>2. RowsAfter(catalog_items[p], op, n) = AfterRemovals(merged, op.segment, k)
      <3>1. CASE n = Upserts(op)
        <4>1. RowsAfter(catalog_items[p], op, n) = merged BY <1>3, <3>1 DEF RowsAfter
        <4>2. k = 0 BY <1>3, <3>1
        <4>3. AfterRemovals(merged, op.segment, 0) = merged BY <1>5, NoRemovalsYet
        <4> QED BY <4>1, <4>2, <4>3
      <3>2. CASE n # Upserts(op)
        <4>1. ~(n <= Upserts(op)) /\ n <= AuditStatement(op) BY <1>1, <1>2, <1>3, <3>2
        <4> QED BY <1>3, <4>1 DEF RowsAfter
      <3> QED BY <3>1, <3>2
    <2>3. RowsAfter(catalog_items[p], op, n + 1) = AfterRemovals(merged, op.segment, k + 1)
      <3> DEFINE m == n + 1
      <3>1. ~(m <= Upserts(op)) /\ m <= AuditStatement(op) BY <1>1, <1>2, <1>3
      <3>2. m - Upserts(op) = k + 1 BY <1>2, <1>3
      <3> HIDE DEF m, k
      <3>3. RowsAfter(catalog_items[p], op, m) = AfterRemovals(merged, op.segment, m - Upserts(op))
        BY <1>3, <3>1 DEF RowsAfter
      <3> QED BY <3>2, <3>3 DEF m
    <2>4. AfterRemovals(merged, op.segment, k + 1)
             = DeleteRow(AfterRemovals(merged, op.segment, k), op.segment.removals[k + 1])
      <3> HIDE DEF k, merged
      <3> QED BY <1>3, <1>4, <1>5, NextRemoval
    <2> QED BY <1>4, <2>1, <2>2, <2>3, <2>4
  <1>7. /\ n < Statements(op) /\ n + 1 < Statements(op)
        /\ n <= AuditStatement(op) /\ n + 1 <= AuditStatement(op)
    BY <1>1, <1>2, <1>3
  <1>8. /\ StateAfter(provider_state[p], op, n + 1) = StateAfter(provider_state[p], op, n)
        /\ AuditAfter(applied_segments[p], op, n + 1) = AuditAfter(applied_segments[p], op, n)
    BY <1>7 DEF StateAfter, AuditAfter
  <1>9. [tx[c] EXCEPT !.catalog_items[p] = x] = After(op, n + 1)
    <2> HIDE DEF x
    <2> QED BY <1>1, <1>6, <1>8, NextStatement
  <1> HIDE DEF x
  <1> QED BY <1>1, <1>7, <1>9, ExecuteKeeps

LEMMA WriteAuditKeeps ==
    ASSUME Inv, NEW c \in Connections, WriteAudit(c)
    PROVE  Inv'
  <1> DEFINE op == call[c]
             n == done[c]
             p == op.provider_id
             x == UpsertAudit(tx[c].applied_segments[p], op.segment.version, op.digest)
  <1>1. /\ InTransaction(c) /\ op.op = "apply" /\ n = AuditStatement(op)
        /\ Execute(c, [tx[c] EXCEPT !.applied_segments[p] = x])
    BY DEF WriteAudit, Applying
  <1>2. op \in ApplyCall /\ n \in Nat
    BY <1>1, TransactionTables, RecordCallFields DEF Calls, Inv, TypeOK
  <1>3. /\ op.op # "record"
        /\ Upserts(op) \in Nat /\ Removals(op) \in Nat
        /\ AuditStatement(op) = Upserts(op) + Removals(op)
        /\ Statements(op) = AuditStatement(op) + 2
    BY <1>2, ApplyCallFields
  <1>4. n = AuditStatement(op) BY <1>1
  <1> HIDE DEF n
  <1>5. /\ n < Statements(op) /\ n + 1 < Statements(op)
        /\ n <= AuditStatement(op) /\ ~(n + 1 <= AuditStatement(op))
    BY <1>2, <1>3, <1>4
  <1>6. x = AuditAfter(applied_segments[p], op, n + 1)
    <2>1. tx[c].applied_segments[p] = applied_segments[p]
      BY <1>1, <1>5, TransactionReads DEF AuditAfter, n
    <2> QED BY <1>3, <1>5, <2>1 DEF AuditAfter
  <1>7. StateAfter(provider_state[p], op, n + 1) = StateAfter(provider_state[p], op, n)
    BY <1>5 DEF StateAfter
  <1>8. RowsAfter(catalog_items[p], op, n + 1) = RowsAfter(catalog_items[p], op, n)
    <2> DEFINE merged == AfterUpserts(catalog_items[p], op.segment, Upserts(op))
    <2>1. RowsAfter(catalog_items[p], op, n + 1)
             = AfterRemovals(merged, op.segment, Removals(op))
      <3> DEFINE m == n + 1
      <3>1. ~(m <= Upserts(op)) /\ ~(m <= AuditStatement(op)) BY <1>2, <1>3, <1>4
      <3> HIDE DEF m
      <3>2. RowsAfter(catalog_items[p], op, m)
               = AfterRemovals(merged, op.segment, Removals(op))
        BY <1>3, <3>1 DEF RowsAfter
      <3> QED BY <3>2 DEF m
    <2>2. RowsAfter(catalog_items[p], op, n) = AfterRemovals(merged, op.segment, Removals(op))
      <3>1. n - Upserts(op) = Removals(op) BY <1>3, <1>4
      <3>2. CASE n <= Upserts(op)
        <4>1. Removals(op) = 0 BY <1>3, <1>4, <3>2
        <4>2. merged \in Rows
          <5>1. Upserts(op) \in 0..Len(op.segment.upserts) BY <1>3 DEF Upserts
          <5> QED BY <1>1, <1>2, <5>1, TransactionTables, ApplyCallFields, AfterUpsertsType
        <4>3. AfterRemovals(merged, op.segment, 0) = merged BY <4>2, NoRemovalsYet
        <4>4. RowsAfter(catalog_items[p], op, n) = AfterUpserts(catalog_items[p], op.segment, n)
          BY <1>3, <3>2 DEF RowsAfter
        <4>5. n = Upserts(op) BY <1>3, <1>4, <4>1
        <4> QED BY <4>1, <4>3, <4>4, <4>5
      <3>3. CASE ~(n <= Upserts(op))
        <4>1. RowsAfter(catalog_items[p], op, n)
                 = AfterRemovals(merged, op.segment, n - Upserts(op))
          BY <1>3, <1>5, <3>3 DEF RowsAfter
        <4> QED BY <3>1, <4>1
      <3> QED BY <3>2, <3>3
    <2> QED BY <2>1, <2>2
  <1>9. [tx[c] EXCEPT !.applied_segments[p] = x] = After(op, n + 1)
    <2> HIDE DEF x
    <2> QED BY <1>1, <1>6, <1>7, <1>8, NextStatement DEF n
  <1> HIDE DEF x
  <1> QED BY <1>1, <1>5, <1>9, ExecuteKeeps DEF n

LEMMA WriteMarkerKeeps ==
    ASSUME Inv, NEW c \in Connections, WriteMarker(c)
    PROVE  Inv'
  <1> DEFINE op == call[c]
             n == done[c]
             p == op.provider_id
             x == AdvanceMarker(tx[c].provider_state[p], op.segment.version, op.index_version)
  <1>1. /\ InTransaction(c) /\ op.op = "apply" /\ n = AuditStatement(op) + 1
        /\ Execute(c, [tx[c] EXCEPT !.provider_state[p] = x])
    BY DEF WriteMarker, Applying
  <1>2. op \in ApplyCall /\ n \in Nat
    BY <1>1, TransactionTables, RecordCallFields DEF Calls, Inv, TypeOK
  <1>3. /\ op.op # "record"
        /\ Upserts(op) \in Nat /\ Removals(op) \in Nat
        /\ AuditStatement(op) = Upserts(op) + Removals(op)
        /\ Statements(op) = AuditStatement(op) + 2
    BY <1>2, ApplyCallFields
  <1>4. n = AuditStatement(op) + 1 BY <1>1
  <1> DEFINE m == n + 1
  <1> HIDE DEF n
  <1>5. /\ n < Statements(op) /\ ~(m < Statements(op))
        /\ ~(n <= AuditStatement(op)) /\ ~(m <= AuditStatement(op))
        /\ ~(n <= Upserts(op)) /\ ~(m <= Upserts(op))
    BY <1>2, <1>3, <1>4
  <1> HIDE DEF m
  <1>6. x = StateAfter(provider_state[p], op, m)
    <2>1. tx[c].provider_state[p] = provider_state[p]
      BY <1>1, <1>5, TransactionReads DEF StateAfter, n
    <2> QED BY <1>3, <1>5, <2>1 DEF StateAfter
  <1>7. AuditAfter(applied_segments[p], op, m) = AuditAfter(applied_segments[p], op, n)
    BY <1>5 DEF AuditAfter
  <1>8. RowsAfter(catalog_items[p], op, m) = RowsAfter(catalog_items[p], op, n)
    BY <1>5 DEF RowsAfter
  <1>9. [tx[c] EXCEPT !.provider_state[p] = x] = After(op, n + 1)
    <2> HIDE DEF x
    <2> QED BY <1>1, <1>6, <1>7, <1>8, NextStatement DEF m, n
  <1> HIDE DEF x
  <1> QED BY <1>1, <1>5, <1>9, ExecuteKeeps DEF n

LEMMA WriteResultKeeps ==
    ASSUME Inv, NEW c \in Connections, WriteResult(c)
    PROVE  Inv'
  <1> DEFINE op == call[c]
             n == done[c]
             p == op.provider_id
             x == NoteResult(tx[c].provider_state[p], op.status, op.index_version)
  <1>1. /\ InTransaction(c) /\ op.op = "record" /\ n = 0
        /\ Execute(c, [tx[c] EXCEPT !.provider_state[p] = x])
    BY DEF WriteResult
  <1>2. op \in RecordCall BY <1>1, TransactionTables, ApplyCallFields DEF Calls
  <1>3. Statements(op) = 1 BY <1>2, RecordCallFields
  <1>4. n < Statements(op) /\ ~(n + 1 < Statements(op)) BY <1>1, <1>3
  <1>5. x = StateAfter(provider_state[p], op, n + 1)
    <2>1. tx[c].provider_state[p] = provider_state[p]
      BY <1>1, <1>4, TransactionReads DEF StateAfter
    <2> QED BY <1>1, <1>4, <2>1 DEF StateAfter
  <1>6. /\ AuditAfter(applied_segments[p], op, n + 1) = AuditAfter(applied_segments[p], op, n)
        /\ RowsAfter(catalog_items[p], op, n + 1) = RowsAfter(catalog_items[p], op, n)
    BY <1>1 DEF AuditAfter, RowsAfter
  <1>7. [tx[c] EXCEPT !.provider_state[p] = x] = After(op, n + 1)
    <2> HIDE DEF x
    <2> QED BY <1>1, <1>5, <1>6, NextStatement
  <1> HIDE DEF x
  <1> QED BY <1>1, <1>4, <1>7, ExecuteKeeps

---------------------------------------------------------------------------
(* Commit is where a whole operation of Catalog happens. *)

LEMMA CommitKeeps ==
    ASSUME Inv, NEW c \in Connections, Commit(c)
    PROVE  Inv'
  <1>1. /\ InTransaction(c) /\ Return(c)
        /\ catalog_items' = tx[c].catalog_items
        /\ provider_state' = tx[c].provider_state
        /\ applied_segments' = tx[c].applied_segments
    BY DEF Commit
  <1>2. tx[c] \in Tables BY <1>1 DEF InTransaction, Inv, TypeOK
  <1>3. (Committed \in Tables)' BY <1>1, <1>2 DEF Committed, Tables
  <1>4. ASSUME NEW d \in Connections \ {c} PROVE Progress(d)'
    <2>1. tx[d] = None BY <1>1 DEF Inv, SingleWriter, InTransaction
    <2>2. tx'[d] = tx[d] /\ done'[d] = done[d] BY <1>1 DEF Return, Inv, TypeOK
    <2> QED BY <2>1, <2>2, ProgressIdle DEF Inv
  <1> QED BY <1>1, <1>3, <1>4, ReturnKeeps

(* The instance of Catalog has its own copy of the table operators.        *)
LEMMA SameOperators ==
    /\ \A rows, segment : Promise!Merge(rows, segment) = Merge(rows, segment)
    /\ \A rows, v, d : Promise!UpsertAudit(rows, v, d) = UpsertAudit(rows, v, d)
    /\ \A s, v, iv : Promise!AdvanceMarker(s, v, iv) = AdvanceMarker(s, v, iv)
    /\ \A s, status, iv : Promise!NoteResult(s, status, iv) = NoteResult(s, status, iv)
    /\ Promise!Statuses = Statuses
  <1>1. \A rows, segment, n :
           /\ Promise!AfterUpserts(rows, segment, n) = AfterUpserts(rows, segment, n)
           /\ Promise!AfterRemovals(rows, segment, n) = AfterRemovals(rows, segment, n)
    BY DEF Promise!AfterUpserts, AfterUpserts, Promise!AfterRemovals, AfterRemovals,
           Promise!Touching, Touching, Promise!Deciding, Deciding
  <1>2. \A rows, segment : Promise!Merge(rows, segment) = Merge(rows, segment)
    BY <1>1 DEF Promise!Merge, Merge
  <1>3. \A rows, v, d : Promise!UpsertAudit(rows, v, d) = UpsertAudit(rows, v, d)
    BY DEF Promise!UpsertAudit, UpsertAudit
  <1>4. /\ \A s, v, iv : Promise!AdvanceMarker(s, v, iv) = AdvanceMarker(s, v, iv)
        /\ \A s, status, iv : Promise!NoteResult(s, status, iv) = NoteResult(s, status, iv)
    BY DEF Promise!AdvanceMarker, AdvanceMarker, Promise!NoteResult, NoteResult,
           Promise!Applied, Applied, Promise!IndexSeen, IndexSeen
  <1>5. Promise!Statuses = Statuses BY DEF Promise!Statuses, Statuses
  <1> QED BY <1>2, <1>3, <1>4, <1>5

LEMMA CommitIsOneOperation ==
    ASSUME Inv, NEW c \in Connections, Commit(c)
    PROVE  Promise!Next
  <1> DEFINE op == call[c]
             p == op.provider_id
             all == Statements(op)
  <1>1. /\ op \in Calls /\ p \in Providers /\ done[c] = all
        /\ catalog_items \in [Providers -> Rows]
        /\ provider_state \in [Providers -> States]
        /\ applied_segments \in [Providers -> SUBSET AuditRow]
        /\ tx[c] = After(op, all)
    BY TransactionTables DEF Commit
  <1>2. /\ catalog_items' = [catalog_items EXCEPT ![p] = RowsAfter(@, op, all)]
        /\ provider_state' = [provider_state EXCEPT ![p] = StateAfter(@, op, all)]
        /\ applied_segments' = [applied_segments EXCEPT ![p] = AuditAfter(@, op, all)]
    BY <1>1 DEF Commit, After
  <1>3. CASE op \in ApplyCall
    <2>1. /\ op.op # "record" /\ op.segment \in Segments /\ op.digest \in Digests
          /\ op.index_version \in IndexVersions
          /\ Upserts(op) \in Nat /\ Removals(op) \in Nat
          /\ AuditStatement(op) = Upserts(op) + Removals(op)
          /\ all = Upserts(op) + Removals(op) + 2
      BY <1>3, ApplyCallFields
    <2>2. ~(all < Statements(op)) /\ ~(all <= Upserts(op)) /\ ~(all <= AuditStatement(op))
      BY <2>1
    <2>3. StateAfter(provider_state[p], op, all)
             = AdvanceMarker(provider_state[p], op.segment.version, op.index_version)
      BY <2>1, <2>2 DEF StateAfter
    <2> HIDE DEF all
    <2>4. AuditAfter(applied_segments[p], op, all)
             = UpsertAudit(applied_segments[p], op.segment.version, op.digest)
      BY <2>1, <2>2 DEF AuditAfter
    <2>5. RowsAfter(catalog_items[p], op, all) = Merge(catalog_items[p], op.segment)
      BY <2>1, <2>2 DEF RowsAfter, Merge, Upserts, Removals
    <2> HIDE DEF op, p
    <2>6. Promise!ApplySegment(p, op.segment, op.digest, op.index_version)
      BY <1>1, <1>2, <2>3, <2>4, <2>5, SameOperators DEF Promise!ApplySegment
    <2> QED BY <1>1, <2>1, <2>6 DEF Promise!Next
  <1>4. CASE op \in RecordCall
    <2>1. /\ op.op = "record" /\ op.status \in Statuses
          /\ op.index_version \in IndexVersions \union {None} /\ all = 1
      BY <1>4, RecordCallFields
    <2>2. /\ RowsAfter(catalog_items[p], op, all) = catalog_items[p]
          /\ AuditAfter(applied_segments[p], op, all) = applied_segments[p]
          /\ StateAfter(provider_state[p], op, all)
                = NoteResult(provider_state[p], op.status, op.index_version)
      BY <2>1 DEF RowsAfter, AuditAfter, StateAfter
    <2> HIDE DEF op, p, all
    <2>3. UNCHANGED <<catalog_items, applied_segments>> BY <1>1, <1>2, <2>2
    <2>4. Promise!RecordCrawlResult(p, op.status, op.index_version)
      BY <1>1, <1>2, <2>2, <2>3, SameOperators DEF Promise!RecordCrawlResult
    <2> QED BY <1>1, <2>1, <2>4, SameOperators DEF Promise!Next
  <1> QED BY <1>1, <1>3, <1>4 DEF Calls

---------------------------------------------------------------------------
LEMMA InitInv == Init => Inv
  <1> SUFFICES ASSUME Init PROVE Inv OBVIOUS
  <1>1. Committed \in Tables
    BY DEF Init, Committed, Tables, NoRows
  <1>2. TypeOK BY <1>1 DEF Init, TypeOK
  <1>3. SingleWriter BY DEF Init, SingleWriter
  <1>4. \A c \in Connections : Progress(c) BY DEF Init, Progress
  <1> QED BY <1>2, <1>3, <1>4 DEF Inv

(* Every step keeps the invariant and is one operation of Catalog, or      *)
(* leaves the committed tables as they are.                                *)
LEMMA StepInv ==
    ASSUME Inv, [Next]_vars
    PROVE  Inv' /\ [Promise!Next]_tables
  <1>1. CASE UNCHANGED vars
    BY <1>1 DEF vars, tables, Inv, TypeOK, Committed, SingleWriter, Progress, IsPrefix, After
  <1>2. ASSUME NEW c \in Connections,
               \/ Call(c) \/ Begin(c) \/ BeginBusy(c)
               \/ UpsertItem(c) \/ RemoveItem(c) \/ WriteAudit(c) \/ WriteMarker(c)
               \/ WriteResult(c)
               \/ Commit(c) \/ Rollback(c) \/ Kill(c)
        PROVE  Inv' /\ [Promise!Next]_tables
    <2>1. CASE Call(c) BY <2>1, CallKeeps DEF Call
    <2>2. CASE Begin(c) BY <2>2, BeginKeeps DEF Begin
    <2>3. CASE BeginBusy(c) BY <2>3, AbandonKeeps DEF BeginBusy
    <2>4. CASE UpsertItem(c) BY <2>4, UpsertItemKeeps DEF UpsertItem, Execute
    <2>5. CASE RemoveItem(c) BY <2>5, RemoveItemKeeps DEF RemoveItem, Execute
    <2>6. CASE WriteAudit(c) BY <2>6, WriteAuditKeeps DEF WriteAudit, Execute
    <2>7. CASE WriteMarker(c) BY <2>7, WriteMarkerKeeps DEF WriteMarker, Execute
    <2>8. CASE WriteResult(c) BY <2>8, WriteResultKeeps DEF WriteResult, Execute
    <2>9. CASE Commit(c) BY <2>9, CommitKeeps, CommitIsOneOperation
    <2>10. CASE Rollback(c) BY <2>10, AbandonKeeps DEF Rollback
    <2>11. CASE Kill(c) BY <2>11, AbandonKeeps DEF Kill
    <2> QED BY <1>2, <2>1, <2>2, <2>3, <2>4, <2>5, <2>6, <2>7, <2>8, <2>9, <2>10, <2>11
  <1> QED BY <1>1, <1>2 DEF Next

(* The tables, calls and private copies always have their declared shape.  *)
THEOREM StoreTypeOK == Spec => []TypeOK
  <1>1. Init => Inv BY InitInv
  <1>2. Inv /\ [Next]_vars => Inv' BY StepInv
  <1>3. Inv => TypeOK BY DEF Inv
  <1> QED BY <1>1, <1>2, <1>3, PTL DEF Spec

(* At most one connection has a transaction open, and what it holds is the *)
(* committed database plus exactly the statements it has executed, so no   *)
(* committed operation is lost under a concurrent one.                     *)
THEOREM StoreIsolation == Spec => []Isolation
  <1>1. Init => Inv BY InitInv
  <1>2. Inv /\ [Next]_vars => Inv' BY StepInv
  <1>3. Inv => Isolation BY DEF Inv, Progress, TransactionIsPrefix, Isolation
  <1> QED BY <1>1, <1>2, <1>3, PTL DEF Spec

(* BEGIN IMMEDIATE lets no second connection write before the first is done. *)
THEOREM StoreSingleWriter == Spec => []SingleWriter
  <1>1. Isolation => SingleWriter BY DEF Isolation
  <1> QED BY <1>1, StoreIsolation, PTL

(* CatalogStore implements Catalog: whatever statements, exceptions and    *)
(* kills are interleaved, the committed tables move by whole operations.   *)
THEOREM StoreAtomicity == Spec => Atomicity
  <1>1. Init => Inv BY InitInv
  <1>2. Inv /\ [Next]_vars => Inv' BY StepInv
  <1>3. Init => Promise!Init
    BY DEF Init, Promise!Init, NoRows, Promise!NoRows
  <1>4. Inv /\ [Next]_vars => [Promise!Next]_Promise!tables
    BY StepInv DEF tables, Promise!tables
  <1> QED BY <1>1, <1>2, <1>3, <1>4, PTL DEF Spec, Atomicity, Promise!Spec

---------------------------------------------------------------------------
Proved == INSTANCE CatalogProofs

(* CatalogProofs speaks of the same specification as Promise. *)
LEMMA SameCatalog ==
    /\ Promise!Init <=> Proved!Init
    /\ [Promise!Next]_tables <=> [Proved!Next]_Proved!tables
    /\ Promise!MarkerIsNewestAudit <=> Proved!MarkerIsNewestAudit
    /\ Promise!RowsAreAudited <=> Proved!RowsAreAudited
    /\ Promise!OneAuditPerVersion <=> Proved!OneAuditPerVersion
  <1>1. Promise!Init <=> Proved!Init
    BY DEF Promise!Init, Proved!Init, Promise!NoRows, Proved!NoRows
  <1>2. /\ \A rows, segment, n :
              /\ Promise!AfterUpserts(rows, segment, n) = Proved!AfterUpserts(rows, segment, n)
              /\ Promise!AfterRemovals(rows, segment, n) = Proved!AfterRemovals(rows, segment, n)
    BY DEF Promise!AfterUpserts, Proved!AfterUpserts, Promise!AfterRemovals,
           Proved!AfterRemovals, Promise!Touching, Proved!Touching,
           Promise!Deciding, Proved!Deciding
  <1>3. \A rows, segment : Promise!Merge(rows, segment) = Proved!Merge(rows, segment)
    BY <1>2 DEF Promise!Merge, Proved!Merge
  <1>4. \A rows, v, d : Promise!UpsertAudit(rows, v, d) = Proved!UpsertAudit(rows, v, d)
    BY DEF Promise!UpsertAudit, Proved!UpsertAudit
  <1>5. /\ \A s, v, iv : Promise!AdvanceMarker(s, v, iv) = Proved!AdvanceMarker(s, v, iv)
        /\ \A s, status, iv : Promise!NoteResult(s, status, iv) = Proved!NoteResult(s, status, iv)
    BY DEF Promise!AdvanceMarker, Proved!AdvanceMarker, Promise!NoteResult, Proved!NoteResult,
           Promise!Applied, Proved!Applied, Promise!IndexSeen, Proved!IndexSeen
  <1>6. \A p, segment, d, iv :
           Promise!ApplySegment(p, segment, d, iv) <=> Proved!ApplySegment(p, segment, d, iv)
    BY <1>3, <1>4, <1>5 DEF Promise!ApplySegment, Proved!ApplySegment
  <1>7. \A p, status, iv :
           Promise!RecordCrawlResult(p, status, iv) <=> Proved!RecordCrawlResult(p, status, iv)
    BY <1>5 DEF Promise!RecordCrawlResult, Proved!RecordCrawlResult
  <1>8. Promise!Next <=> Proved!Next
    BY <1>6, <1>7 DEF Promise!Next, Proved!Next, Promise!Statuses, Proved!Statuses
  <1>9. [Promise!Next]_tables <=> [Proved!Next]_Proved!tables
    BY <1>8 DEF tables, Proved!tables
  <1>10. \A rows : Promise!AuditedVersions(rows) = Proved!AuditedVersions(rows)
    BY DEF Promise!AuditedVersions, Proved!AuditedVersions
  <1>11. \A p : Promise!LastApplied(p) = Proved!LastApplied(p)
    BY DEF Promise!LastApplied, Proved!LastApplied, Promise!Applied, Proved!Applied
  <1>12. Promise!MarkerIsNewestAudit <=> Proved!MarkerIsNewestAudit
    BY <1>10, <1>11 DEF Promise!MarkerIsNewestAudit, Proved!MarkerIsNewestAudit
  <1>13. Promise!RowsAreAudited <=> Proved!RowsAreAudited
    BY <1>10 DEF Promise!RowsAreAudited, Proved!RowsAreAudited
  <1>14. Promise!OneAuditPerVersion <=> Proved!OneAuditPerVersion
    BY DEF Promise!OneAuditPerVersion, Proved!OneAuditPerVersion
  <1> QED BY <1>1, <1>9, <1>12, <1>13, <1>14


(* Inv, and the relations between the committed tables.                    *)
InvConsistent == Inv /\ Proved!Consistent

LEMMA NoneIsNoRow ==
    /\ None \notin Proved!Row
    /\ None \notin Proved!ProviderState
    /\ None \notin Proved!Segment
    /\ None \notin Nat
    /\ None \notin Digests
  BY NoneAssumption
  DEF Row, Proved!Row, ProviderState, Proved!ProviderState, Segment, Proved!Segment,
      Versions, Proved!Versions, Statuses, Proved!Statuses

LEMMA InitInvConsistent == Init => InvConsistent
  <1>1. Init => Promise!Init
    BY DEF Init, Promise!Init, NoRows, Promise!NoRows
  <1> QED BY <1>1, SameCatalog, InitInv, NoneIsNoRow, Proved!InitConsistent DEF InvConsistent

LEMMA StepInvConsistent ==
    ASSUME InvConsistent, [Next]_vars
    PROVE  /\ InvConsistent'
           /\ \A p \in Providers : Promise!LastApplied(p)' >= Promise!LastApplied(p)
  <1>1. Inv' /\ [Proved!Next]_Proved!tables BY StepInv, SameCatalog DEF InvConsistent
  <1>2. Segments \subseteq Proved!Segment /\ IndexVersions \subseteq Proved!Versions
    BY StoreAssumption DEF Segment, Proved!Segment, Versions, Proved!Versions
  <1>3. /\ Proved!Consistent'
        /\ \A p \in Providers : Proved!LastApplied(p)' >= Proved!LastApplied(p)
    BY <1>1, <1>2, NoneIsNoRow, Proved!StepConsistent DEF InvConsistent
  <1> QED
    BY <1>1, <1>3
    DEF InvConsistent, Promise!LastApplied, Proved!LastApplied,
        Promise!Applied, Proved!Applied

(* The committed tables never disagree with one another: Catalog           *)
(* guarantees it, and the store moves only by Catalog's operations.        *)
THEOREM StoreConsistent ==
    Spec => [](MarkerIsNewestAudit /\ RowsAreAudited /\ OneAuditPerVersion)
  <1>1. Init => InvConsistent BY InitInvConsistent
  <1>2. InvConsistent /\ [Next]_vars => InvConsistent' BY StepInvConsistent
  <1>3. InvConsistent => MarkerIsNewestAudit /\ RowsAreAudited /\ OneAuditPerVersion
    BY SameCatalog DEF InvConsistent, Proved!Consistent,
                       MarkerIsNewestAudit, RowsAreAudited, OneAuditPerVersion
  <1> QED BY <1>1, <1>2, <1>3, PTL DEF Spec

(* Every committed row names a version the audit trail of its provider has: *)
(* the statements of one apply_segment write both, or neither.              *)
THEOREM StoreRowsAreAudited == Spec => []RowsAreAudited
  BY StoreConsistent, PTL

(* A replayed segment updates the audit row of its version, also when two   *)
(* connections replay it at once.                                           *)
THEOREM StoreOneAuditPerVersion == Spec => []OneAuditPerVersion
  BY StoreConsistent, PTL

(* No commit, whatever it interleaves with, moves a marker backwards.      *)
THEOREM StoreMarkerNeverRewinds == Spec => MarkerNeverRewinds
  <1>1. Init => InvConsistent BY InitInvConsistent
  <1>2. InvConsistent /\ [Next]_vars => InvConsistent' BY StepInvConsistent
  <1>3. InvConsistent /\ [Next]_vars =>
           [\A p \in Providers : Promise!LastApplied(p)' >= Promise!LastApplied(p)]_Promise!tables
    BY StepInvConsistent
  <1> QED
    BY <1>1, <1>2, <1>3, PTL DEF Spec, MarkerNeverRewinds, Promise!MarkerNeverRewinds
=============================================================================
