--------------------------- MODULE FetcherProofs ---------------------------
(***************************************************************************)
(* What a fetch guarantees for any settings, whatever the server sends and *)
(* however slowly: types, bytes of a single response, the cap, when it     *)
(* tries again, and what alone can keep it from ending.                    *)
(***************************************************************************)
EXTENDS Fetcher, Integers, TLAPS

(* What the place in the code says of the other variables. *)
Control ==
    /\ pc # "done" => outcome = None /\ troubles \subseteq Transient
    /\ pc \in {"get", "body", "sleep"} => scheme = "http"
    /\ pc \in {"stat", "read"} => scheme = "file"
    /\ scheme = "http" => requests = attempt
    /\ scheme # "http" => requests = 0 /\ troubles = {}
    /\ pc = "sleep" => attempt < MaxRetries
    /\ outcome = "gave_up" => scheme = "http" /\ attempt = MaxRetries

(* While the body is read, the buffer and what iter_content has gathered   *)
(* are what this response delivered, and the buffer fits; a file is read   *)
(* only once it was measured and found to fit.                             *)
Buffer ==
    /\ pc = "body" =>
          /\ chunks.size + gathered = sent
          /\ chunks.from \subseteq {attempt}
          /\ chunks.size <= MaxDownloadBytes
    /\ pc = "read" => measured <= MaxDownloadBytes

(* Before a response nothing of it has been delivered. *)
Waiting == pc = "get" => sent = 0 /\ gathered = 0

Inv == TypeOK /\ Control /\ Waiting /\ Buffer /\ DownloadIsCapped /\ BytesAreOneResponse
       /\ RetriesFitTheFailure

LEMMA Numbers ==
    /\ MaxRetries \in Nat \ {0} /\ MaxDownloadBytes \in Nat \ {0} /\ MaxChunk \in Nat \ {0}
    /\ MaxFile \in Nat
    /\ None \notin Nat /\ None \notin Errors \union {"bytes"}
    /\ Attempts = 1..MaxRetries
BY SettingsAssumption, FetchBoundsAssumption DEF Attempts

LEMMA InitInv == Init => Inv
  <1> SUFFICES ASSUME Init PROVE Inv OBVIOUS
  <1>1. TypeOK
    <2>1. scheme \in Schemes /\ pc \in {"get", "stat", "done"} BY DEF Init, Schemes
    <2>2. attempt \in Attempts /\ requests \in 0..(MaxRetries + 1) BY Numbers DEF Init, Attempts
    <2>3. /\ sent \in Nat /\ gathered \in 0..MaxChunk /\ idle \in {0, 1}
          /\ measured \in 0..MaxFile
      BY Numbers DEF Init
    <2>4. chunks \in [size : Nat, from : SUBSET Attempts] BY Numbers DEF Init, Empty
    <2>5. file \in 0..MaxFile \union {None} BY Numbers DEF Init
    <2>6. outcome \in Errors \union {"bytes", None} BY Numbers DEF Init, Errors
    <2> QED BY <2>1, <2>2, <2>3, <2>4, <2>5, <2>6 DEF Init, TypeOK
  <1>2. outcome # "gave_up" /\ outcome # "bytes" BY Numbers DEF Init, Errors
  <1>3. Control /\ RetriesFitTheFailure
    BY <1>2, Numbers DEF Init, Schemes, Control, RetriesFitTheFailure
  <1>4. Waiting /\ Buffer /\ DownloadIsCapped /\ BytesAreOneResponse
    BY <1>2, Numbers
    DEF Init, Waiting, Buffer, DownloadIsCapped, BytesAreOneResponse, Empty
  <1> QED BY <1>1, <1>3, <1>4 DEF Inv
---------------------------------------------------------------------------
(* An attempt that fails for good keeps everything. *)
LEMMA FailKeeps ==
    ASSUME Inv, pc \in {"get", "body"}, NEW t \in Permanent, Fail(t)
    PROVE  Inv'
  <1>1. TypeOK /\ Control /\ DownloadIsCapped BY DEF Inv
  <1>2. /\ pc' = "done" /\ outcome' = t /\ troubles' = troubles \union {t}
        /\ UNCHANGED <<scheme, attempt, requests, sent, gathered, chunks, idle, measured, file>>
    BY DEF Fail, Finish, Meet, data
  <1>3. t # "gave_up" /\ t # "bytes" BY DEF Permanent
  <1>4. TypeOK' BY <1>1, <1>2 DEF TypeOK, Errors
  <1>5. Control' /\ Waiting' /\ Buffer' /\ BytesAreOneResponse' /\ DownloadIsCapped'
    BY <1>1, <1>2, <1>3
    DEF Control, Waiting, Buffer, BytesAreOneResponse, DownloadIsCapped
  <1>6. RetriesFitTheFailure'
    <2>1. scheme = "http" /\ troubles \subseteq Transient BY <1>1 DEF Control, Schemes
    <2>2. troubles' \intersect Permanent = {t} BY <1>2, <2>1 DEF Transient, Permanent
    <2>3. requests <= MaxRetries BY <1>1, <2>1, Numbers DEF Control, TypeOK
    <2> QED BY <1>2, <1>3, <2>2, <2>3 DEF RetriesFitTheFailure
  <1> QED BY <1>4, <1>5, <1>6 DEF Inv

(* So does one that is to be tried again, or was the last. *)
LEMMA RetryKeeps ==
    ASSUME Inv, pc \in {"get", "body"}, NEW t \in Transient, Retry(t)
    PROVE  Inv'
  <1>1. TypeOK /\ Control /\ DownloadIsCapped BY DEF Inv
  <1>2. /\ troubles' = troubles \union {t}
        /\ UNCHANGED <<scheme, attempt, requests, sent, gathered, chunks, idle, measured, file>>
        /\ \/ attempt < MaxRetries /\ pc' = "sleep" /\ outcome' = outcome
           \/ ~(attempt < MaxRetries) /\ pc' = "done" /\ outcome' = "gave_up"
    BY DEF Retry, Finish, Meet, data
  <1>3. /\ scheme = "http" /\ troubles \subseteq Transient /\ outcome = None
        /\ requests = attempt
    BY <1>1 DEF Control
  <1>4. None # "gave_up" /\ None # "bytes" BY Numbers DEF Errors
  <1>5. ~(attempt < MaxRetries) => attempt = MaxRetries BY <1>1, Numbers DEF TypeOK
  <1>6. TypeOK' BY <1>1, <1>2 DEF TypeOK, Errors
  <1>7. Control' /\ Waiting' BY <1>2, <1>3, <1>4, <1>5 DEF Control, Waiting
  <1>8. Buffer' /\ BytesAreOneResponse' /\ DownloadIsCapped'
    BY <1>1, <1>2, <1>3, <1>4 DEF Buffer, BytesAreOneResponse, DownloadIsCapped
  <1>9. RetriesFitTheFailure'
    <2>1. troubles' \intersect Permanent = {} BY <1>2, <1>3 DEF Transient, Permanent
    <2>2. requests <= MaxRetries BY <1>1, <1>3, Numbers DEF TypeOK
    <2>3. outcome' = "gave_up" => requests' = MaxRetries BY <1>2, <1>3, <1>4, <1>5
    <2> QED BY <1>2, <2>1, <2>2, <2>3 DEF RetriesFitTheFailure
  <1> QED BY <1>6, <1>7, <1>8, <1>9 DEF Inv

---------------------------------------------------------------------------
(* The other steps of an attempt. *)
LEMMA IdleReadKeeps ==
    ASSUME Inv, IdleRead
    PROVE  Inv'
  <1>1. /\ idle' = 1 - idle
        /\ UNCHANGED <<scheme, pc, attempt, requests, troubles, sent, gathered, chunks,
                       measured, file, outcome>>
    BY DEF IdleRead, attempts, data
  <1>2. idle' \in {0, 1} BY <1>1 DEF Inv, TypeOK
  <1> QED BY <1>1, <1>2 DEF Inv, TypeOK, Control, Waiting, Buffer, DownloadIsCapped,
                            BytesAreOneResponse, RetriesFitTheFailure

LEMMA ResponseKeeps ==
    ASSUME Inv, NEW declared, Response(declared)
    PROVE  Inv'
  <1>1. TypeOK /\ Control /\ Waiting /\ DownloadIsCapped /\ RetriesFitTheFailure BY DEF Inv
  <1>2. pc = "get" BY DEF Response
  <1>3. CASE Fail("too_large") BY <1>2, <1>3, FailKeeps DEF Permanent
  <1>4. CASE /\ pc' = "body" /\ chunks' = NewBuffer
             /\ UNCHANGED <<scheme, attempts, sent, gathered, measured, idle, file, outcome>>
    <2>1. /\ pc' = "body" /\ chunks' = [size |-> 0, from |-> {}]
          /\ UNCHANGED <<scheme, attempt, requests, troubles, sent, gathered, measured, idle,
                         file, outcome>>
      BY <1>4 DEF attempts, NewBuffer, Empty
    <2>2. TypeOK' BY <1>1, <2>1, Numbers DEF TypeOK
    <2>3. Control' /\ RetriesFitTheFailure'
      BY <1>1, <1>2, <2>1 DEF Control, RetriesFitTheFailure
    <2>4. outcome' # "bytes" BY <1>1, <1>2, <2>1, Numbers DEF Control
    <2>5. sent = 0 /\ gathered = 0 BY <1>1, <1>2 DEF Waiting
    <2>6. Waiting' /\ Buffer' /\ BytesAreOneResponse' /\ DownloadIsCapped'
      BY <2>1, <2>4, <2>5, Numbers
      DEF Waiting, Buffer, BytesAreOneResponse, DownloadIsCapped
    <2> QED BY <2>2, <2>3, <2>6 DEF Inv
  <1> QED BY <1>3, <1>4 DEF Response

LEMMA ReadBodyKeeps ==
    ASSUME Inv, NEW n \in 1..MaxChunk, ReadBody(n)
    PROVE  Inv'
  <1>1. TypeOK /\ Control /\ Buffer /\ RetriesFitTheFailure BY DEF Inv
  <1>2. /\ pc = "body" /\ gathered + n <= MaxChunk
        /\ sent' = sent + n /\ gathered' = gathered + n
        /\ UNCHANGED <<scheme, pc, attempt, requests, troubles, chunks, measured, idle, file,
                       outcome>>
    BY DEF ReadBody, attempts
  <1>3. /\ sent \in Nat /\ gathered \in Nat /\ chunks.size \in Nat /\ n \in Nat
    BY <1>1, Numbers DEF TypeOK
  <1>4. TypeOK' BY <1>1, <1>2, <1>3, Numbers DEF TypeOK
  <1>5. Control' /\ Waiting' /\ RetriesFitTheFailure'
    BY <1>1, <1>2 DEF Control, Waiting, RetriesFitTheFailure
  <1>6. outcome' # "bytes" BY <1>1, <1>2, Numbers DEF Control
  <1>7. Buffer' BY <1>1, <1>2, <1>3 DEF Buffer
  <1>8. chunks.size + (gathered + n) <= MaxDownloadBytes + MaxChunk
    BY <1>1, <1>2, <1>3, Numbers DEF Buffer
  <1>9. DownloadIsCapped' /\ BytesAreOneResponse'
    BY <1>2, <1>6, <1>8 DEF DownloadIsCapped, BytesAreOneResponse
  <1> QED BY <1>4, <1>5, <1>7, <1>9 DEF Inv

LEMMA ReadChunkKeeps ==
    ASSUME Inv, ReadChunk
    PROVE  Inv'
  <1>1. TypeOK /\ Control /\ Buffer /\ RetriesFitTheFailure BY DEF Inv
  <1>2. /\ pc = "body" /\ gathered' = 0
        /\ chunks' = [size |-> chunks.size + gathered, from |-> chunks.from \union {attempt}]
        /\ UNCHANGED <<scheme, attempt, requests, sent, measured, idle, file>>
    BY DEF ReadChunk, Extended
  <1>3. /\ sent \in Nat /\ gathered \in Nat /\ gathered <= MaxChunk /\ chunks.size \in Nat
        /\ chunks.from \subseteq Attempts /\ attempt \in Attempts
    BY <1>1, Numbers DEF TypeOK
  <1>4. /\ chunks' \in [size : Nat, from : SUBSET Attempts] /\ gathered' \in 0..MaxChunk
        /\ chunks'.size = chunks.size + gathered
    BY <1>2, <1>3, Numbers
  <1>5. scheme = "http" /\ outcome = None /\ troubles \subseteq Transient
    BY <1>1, <1>2 DEF Control
  <1>6. chunks'.size + gathered' <= MaxDownloadBytes + MaxChunk
    BY <1>1, <1>2, <1>3, <1>4, Numbers DEF Buffer
  <1>7. CASE chunks.size + gathered > MaxDownloadBytes
    <2>1. pc' = "done" /\ outcome' = "too_large" /\ troubles' = troubles \union {"too_large"}
      BY <1>7 DEF ReadChunk, Extended, Finish, Meet
    <2>2. TypeOK' BY <1>1, <1>2, <1>4, <2>1 DEF TypeOK, Errors, Permanent
    <2>3. Control' /\ Waiting' /\ Buffer' BY <1>1, <1>2, <2>1 DEF Control, Waiting, Buffer
    <2>4. DownloadIsCapped' /\ BytesAreOneResponse'
      BY <1>6, <2>1 DEF DownloadIsCapped, BytesAreOneResponse
    <2>5. troubles' \intersect Permanent = {"too_large"}
      BY <1>5, <2>1 DEF Transient, Permanent
    <2>6. RetriesFitTheFailure' BY <1>1, <1>2, <2>1, <2>5 DEF RetriesFitTheFailure
    <2> QED BY <2>2, <2>3, <2>4, <2>6 DEF Inv
  <1>8. CASE ~(chunks.size + gathered > MaxDownloadBytes)
    <2>1. UNCHANGED <<pc, troubles, outcome>> BY <1>8 DEF ReadChunk, Extended
    <2>2. TypeOK' BY <1>1, <1>2, <1>4, <2>1 DEF TypeOK
    <2>3. Control' /\ Waiting' /\ RetriesFitTheFailure'
      BY <1>1, <1>2, <2>1 DEF Control, Waiting, RetriesFitTheFailure
    <2>4. Buffer' BY <1>1, <1>2, <1>3, <1>4, <1>8, <2>1, Numbers DEF Buffer
    <2>5. outcome' # "bytes" BY <1>5, <2>1, Numbers
    <2>6. DownloadIsCapped' /\ BytesAreOneResponse'
      BY <1>6, <2>5 DEF DownloadIsCapped, BytesAreOneResponse
    <2> QED BY <2>2, <2>3, <2>4, <2>6 DEF Inv
  <1> QED BY <1>7, <1>8

LEMMA EndOfBodyKeeps ==
    ASSUME Inv, EndOfBody
    PROVE  Inv'
  <1>1. TypeOK /\ Control /\ Buffer /\ DownloadIsCapped /\ RetriesFitTheFailure BY DEF Inv
  <1>2. /\ pc = "body" /\ gathered = 0 /\ pc' = "done" /\ outcome' = "bytes"
        /\ UNCHANGED <<scheme, attempt, requests, troubles, sent, gathered, chunks, idle,
                       measured, file>>
    BY DEF EndOfBody, Finish, attempts, data
  <1>3. TypeOK' BY <1>1, <1>2 DEF TypeOK
  <1>4. Control' /\ Waiting' /\ Buffer' BY <1>1, <1>2 DEF Control, Waiting, Buffer
  <1>5. chunks.size = sent BY <1>1, <1>2 DEF Buffer, TypeOK
  <1>6. DownloadIsCapped' /\ BytesAreOneResponse'
    BY <1>1, <1>2, <1>5 DEF Buffer, DownloadIsCapped, BytesAreOneResponse
  <1>7. RetriesFitTheFailure'
    <2>1. troubles \subseteq Transient BY <1>1, <1>2 DEF Control
    <2>2. troubles' \intersect Permanent = {} BY <1>2, <2>1 DEF Transient, Permanent
    <2> QED BY <1>1, <1>2, <2>2 DEF RetriesFitTheFailure
  <1> QED BY <1>3, <1>4, <1>6, <1>7 DEF Inv

LEMMA WakeKeeps ==
    ASSUME Inv, Wake
    PROVE  Inv'
  <1>1. TypeOK /\ Control /\ DownloadIsCapped BY DEF Inv
  <1>2. /\ pc = "sleep" /\ pc' = "get" /\ attempt' = attempt + 1
        /\ sent' = 0 /\ gathered' = 0
        /\ requests' = (IF requests > MaxRetries THEN requests ELSE requests + 1)
        /\ UNCHANGED <<scheme, chunks, measured, idle, troubles, file, outcome>>
    BY DEF Wake, Request
  <1>3. /\ scheme = "http" /\ outcome = None /\ troubles \subseteq Transient
        /\ requests = attempt /\ attempt < MaxRetries
    BY <1>1, <1>2 DEF Control
  <1>4. attempt \in Attempts /\ attempt + 1 \in Attempts /\ requests' = attempt + 1
    BY <1>1, <1>2, <1>3, Numbers DEF TypeOK
  <1>5. TypeOK'
    <2>1. /\ pc' \in {"get", "body", "sleep", "stat", "read", "done"}
          /\ attempt' \in Attempts /\ sent' \in Nat /\ gathered' \in 0..MaxChunk
          /\ requests' \in 0..(MaxRetries + 1)
      BY <1>2, <1>4, Numbers
    <2> QED BY <1>1, <1>2, <2>1 DEF TypeOK
  <1>6. outcome' # "bytes" /\ outcome' # "gave_up" BY <1>2, <1>3, Numbers DEF Errors
  <1>7. Control' /\ Waiting' /\ Buffer'
    BY <1>2, <1>3, <1>4, <1>6 DEF Control, Waiting, Buffer
  <1>8. chunks.size + 0 <= MaxDownloadBytes + MaxChunk
    BY <1>1, <1>3, Numbers DEF TypeOK, DownloadIsCapped
  <1>9. DownloadIsCapped' /\ BytesAreOneResponse'
    BY <1>2, <1>6, <1>8 DEF DownloadIsCapped, BytesAreOneResponse
  <1>10. RetriesFitTheFailure'
    <2>1. troubles' \intersect Permanent = {} BY <1>2, <1>3 DEF Transient, Permanent
    <2>2. requests' <= MaxRetries BY <1>4, Numbers
    <2> QED BY <1>6, <2>1, <2>2 DEF RetriesFitTheFailure
  <1> QED BY <1>5, <1>7, <1>9, <1>10 DEF Inv

(* A local file: no request. *)
LEMMA LocalKeeps ==
    ASSUME Inv, Unreadable \/ Stat \/ ReadFile \/ FileChanges
    PROVE  Inv'
  <1>1. TypeOK /\ Control /\ Buffer /\ RetriesFitTheFailure BY DEF Inv
  <1>2. /\ pc \in {"stat", "read"} /\ pc' \in {"stat", "read", "done"}
        /\ UNCHANGED <<scheme, attempt, requests, troubles, sent, gathered, idle>>
    BY DEF Unreadable, Stat, ReadFile, FileChanges, Finish, attempts, data
  <1>3. scheme = "file" /\ requests = 0 /\ troubles = {}
    BY <1>1, <1>2 DEF Control
  <1>4. /\ pc' = "done" \/ outcome' = outcome
        /\ outcome' \in {outcome, "too_large", "unreadable", "bytes"}
    BY DEF Unreadable, Stat, ReadFile, FileChanges, Finish
  <1>5. file' \in 0..MaxFile \union {None}
    BY <1>1 DEF Unreadable, Stat, ReadFile, FileChanges, TypeOK
  <1>6. chunks' \in [size : Nat, from : SUBSET Attempts]
    BY <1>1, Numbers DEF Unreadable, Stat, ReadFile, FileChanges, TypeOK, data
  <1>7. outcome = None /\ None # "gave_up" /\ None # "bytes"
    BY <1>1, <1>2, Numbers DEF Control, Errors
  <1>8. /\ measured' \in 0..MaxFile
        /\ pc' = "read" => measured' <= MaxDownloadBytes
    <2>1. measured \in 0..MaxFile /\ file \in 0..MaxFile \union {None} BY <1>1 DEF TypeOK
    <2>2. CASE Stat BY <2>1, <2>2, Numbers DEF Stat, Finish
    <2>3. CASE Unreadable \/ ReadFile \/ FileChanges
      <3>1. UNCHANGED measured BY <2>3 DEF Unreadable, ReadFile, FileChanges, data
      <3>2. pc' = "read" => pc = "read"
        BY <2>3 DEF Unreadable, ReadFile, FileChanges, Finish
      <3> QED BY <1>1, <2>1, <3>1, <3>2 DEF Buffer
    <2> QED BY <2>2, <2>3
  <1>9. outcome' = "bytes" =>
            chunks'.size <= MaxDownloadBytes \/ chunks'.size > measured'
    <2>1. CASE ReadFile
      <3>1. file \in Nat /\ measured \in Nat /\ measured <= MaxDownloadBytes
        BY <1>1, <2>1, Numbers DEF ReadFile, TypeOK, Buffer
      <3>2. chunks'.size = file /\ measured' = measured BY <2>1 DEF ReadFile
      <3> QED BY <3>1, <3>2, Numbers
    <2>2. CASE Unreadable \/ Stat \/ FileChanges
      <3>1. outcome' # "bytes"
        BY <1>7, <2>2 DEF Unreadable, Stat, FileChanges, Finish
      <3> QED BY <3>1
    <2> QED BY <2>1, <2>2
  <1>10. TypeOK'
    <2>1. outcome' \in Errors \union {"bytes", None}
      BY <1>1, <1>4 DEF TypeOK, Errors, Permanent
    <2> QED BY <1>1, <1>2, <1>5, <1>6, <1>8, <2>1 DEF TypeOK
  <1>11. Control' /\ Waiting' /\ Buffer'
    <2>1. pc' \notin {"get", "body", "sleep"} BY <1>2
    <2>2. pc' # "done" => outcome' = None BY <1>4, <1>7
    <2>3. outcome' # "gave_up" BY <1>4, <1>7
    <2> QED BY <1>2, <1>3, <1>8, <2>1, <2>2, <2>3 DEF Control, Waiting, Buffer
  <1>12. DownloadIsCapped' /\ BytesAreOneResponse' /\ RetriesFitTheFailure'
    BY <1>1, <1>2, <1>3, <1>4, <1>7, <1>9
    DEF DownloadIsCapped, BytesAreOneResponse, RetriesFitTheFailure
  <1> QED BY <1>10, <1>11, <1>12 DEF Inv

---------------------------------------------------------------------------
LEMMA NextInv == Inv /\ [Next]_vars => Inv'
  <1> SUFFICES ASSUME Inv, [Next]_vars PROVE Inv' OBVIOUS
  <1>1. CASE TimedOut \/ ConnectionError \/ RetryableStatus \/ Stalled
    BY <1>1, RetryKeeps DEF TimedOut, ConnectionError, RetryableStatus, Stalled, Transient
  <1>2. CASE RequestError \/ RefusingStatus \/ Broken
    BY <1>2, FailKeeps DEF RequestError, RefusingStatus, Broken, Permanent
  <1>3. CASE IdleRead BY <1>3, IdleReadKeeps
  <1>4. ASSUME NEW declared, Response(declared) PROVE Inv' BY <1>4, ResponseKeeps
  <1>5. ASSUME NEW n \in 1..MaxChunk, ReadBody(n) PROVE Inv' BY <1>5, ReadBodyKeeps
  <1>6. CASE ReadChunk BY <1>6, ReadChunkKeeps
  <1>7. CASE EndOfBody BY <1>7, EndOfBodyKeeps
  <1>8. CASE Wake BY <1>8, WakeKeeps
  <1>9. CASE Unreadable \/ Stat \/ ReadFile \/ FileChanges BY <1>9, LocalKeeps
  <1>10. CASE UNCHANGED vars
    <2>1. UNCHANGED <<scheme, pc, attempt, requests, troubles, sent, gathered, chunks, idle,
                      measured, file, outcome>>
      BY <1>10 DEF vars, attempts, data
    <2> QED BY <2>1 DEF Inv, TypeOK, Control, Waiting, Buffer, DownloadIsCapped,
                        BytesAreOneResponse, RetriesFitTheFailure
  <1> QED BY <1>1, <1>2, <1>3, <1>4, <1>5, <1>6, <1>7, <1>8, <1>9, <1>10 DEF Next, Step

(* The inductive invariant of a fetch.                                     *)
THEOREM FetcherInvariant == Spec => []Inv
  <1> QED BY InitInv, NextInv, PTL DEF Spec

(* Type correctness: among others the request count stays bounded. *)
THEOREM FetcherTypeOK == Spec => []TypeOK
  <1>1. Inv => TypeOK BY DEF Inv
  <1> QED BY <1>1, FetcherInvariant, PTL

(* What is returned are the bytes of one response, all it delivered, for   *)
(* any number of attempts and any way the earlier ones were cut short.     *)
THEOREM FetcherBytesAreOneResponse == Spec => []BytesAreOneResponse
  <1>1. Inv => BytesAreOneResponse BY DEF Inv
  <1> QED BY <1>1, FetcherInvariant, PTL

(* Whatever a server declares and sends, no more than the cap and one      *)
(* chunk of a body is held, and no more than the cap returned.             *)
THEOREM FetcherDownloadIsCapped == Spec => []DownloadIsCapped
  <1>1. Inv => DownloadIsCapped BY DEF Inv
  <1> QED BY <1>1, FetcherInvariant, PTL

(* Permanent failures end a fetch, transient ones use up the attempts.     *)
THEOREM FetcherRetriesFitTheFailure == Spec => []RetriesFitTheFailure
  <1>1. Inv => RetriesFitTheFailure BY DEF Inv
  <1> QED BY <1>1, FetcherInvariant, PTL

---------------------------------------------------------------------------
(* What alone is unbounded. *)

(* Twice the most a body delivers, and what the attempts after a have. *)
Body == 2 * (MaxDownloadBytes + MaxChunk)
Ahead(a) == (MaxRetries - a) * (Body + 4)

LEMMA AheadFacts ==
    /\ Body \in Nat /\ Body = 2 * (MaxDownloadBytes + MaxChunk)
    /\ \A a \in Attempts : Ahead(a) \in Nat
    /\ \A a \in Attempts : a < MaxRetries =>
          a + 1 \in Attempts /\ Ahead(a) = Ahead(a + 1) + Body + 4
  <1>1. Body \in Nat BY Numbers DEF Body
  <1>2. ASSUME NEW n \in Nat PROVE n * (Body + 4) \in Nat BY <1>1
  <1>3. \A a \in Attempts : MaxRetries - a \in Nat BY Numbers
  <1>4. \A a \in Attempts : Ahead(a) \in Nat BY <1>2, <1>3 DEF Ahead
  <1>5. ASSUME NEW a \in Attempts, a < MaxRetries
        PROVE  a + 1 \in Attempts /\ Ahead(a) = Ahead(a + 1) + Body + 4
    <2>1. PICK k \in Nat : MaxRetries - (a + 1) = k /\ MaxRetries - a = k + 1
      <3>1. MaxRetries - (a + 1) \in Nat /\ MaxRetries - a = (MaxRetries - (a + 1)) + 1
        BY <1>5, Numbers
      <3> QED BY <3>1
    <2>2. (k + 1) * (Body + 4) = k * (Body + 4) + (Body + 4) BY <1>1
    <2>3. k * (Body + 4) \in Nat BY <1>2
    <2> QED BY <1>1, <1>5, <2>1, <2>2, <2>3, Numbers DEF Ahead
  <1> QED BY <1>1, <1>4, <1>5 DEF Body

(* StepsLeft, place by place, before a step and after it. *)
LEMMA StepsLeftIs ==
    /\ pc = "get" => StepsLeft = Ahead(attempt) + Body + 4
    /\ pc = "body" => StepsLeft = Ahead(attempt) + Body - 2 * sent + 2
                                    + (IF gathered > 0 THEN 1 ELSE 0)
    /\ pc = "sleep" => StepsLeft = Ahead(attempt) + 1
    /\ pc = "stat" => StepsLeft = 2
    /\ pc = "read" => StepsLeft = 1
    /\ pc = "done" => StepsLeft = 0
  BY DEF StepsLeft, Ahead, Body

LEMMA StepsLeftWillBe ==
    /\ pc' = "get" => StepsLeft' = Ahead(attempt') + Body + 4
    /\ pc' = "body" => StepsLeft' = Ahead(attempt') + Body - 2 * sent' + 2
                                     + (IF gathered' > 0 THEN 1 ELSE 0)
    /\ pc' = "sleep" => StepsLeft' = Ahead(attempt') + 1
    /\ pc' = "stat" => StepsLeft' = 2
    /\ pc' = "read" => StepsLeft' = 1
    /\ pc' = "done" => StepsLeft' = 0
  BY DEF StepsLeft, Ahead, Body

Nearer ==
    /\ 0 <= StepsLeft'
    /\ \/ StepsLeft' < StepsLeft
       \/ StepsLeft' = StepsLeft /\ (IdleRead \/ FileChanges)

(* An attempt under way has two steps before it, whatever its body: no     *)
(* more than the cap and one chunk of it has been delivered.               *)
LEMMA UnderWay ==
    ASSUME Inv, pc \in {"get", "body"}
    PROVE  /\ attempt \in Attempts /\ Ahead(attempt) \in Nat /\ sent \in Nat
           /\ gathered \in Nat
           /\ pc = "body" => 2 * sent <= Body
           /\ StepsLeft \in Int /\ StepsLeft >= Ahead(attempt) + 2
  <1>1. TypeOK /\ Buffer BY DEF Inv
  <1>2. /\ attempt \in Attempts /\ Ahead(attempt) \in Nat /\ sent \in Nat
        /\ gathered \in Nat /\ gathered <= MaxChunk /\ chunks.size \in Nat
    BY <1>1, Numbers, AheadFacts DEF TypeOK
  <1>3. pc = "body" => sent <= MaxDownloadBytes + MaxChunk
    BY <1>1, <1>2, Numbers DEF Buffer
  <1>4. pc = "body" => 2 * sent <= Body BY <1>2, <1>3, Numbers, AheadFacts
  <1> QED BY <1>2, <1>4, AheadFacts, StepsLeftIs

LEMMA AttemptEnds ==
    ASSUME Inv, pc \in {"get", "body"}, pc' \in {"sleep", "done"}, attempt' = attempt
    PROVE  Nearer
  <1>1. StepsLeft \in Int /\ StepsLeft >= Ahead(attempt) + 2 /\ Ahead(attempt) \in Nat
    BY UnderWay
  <1>2. StepsLeft' = Ahead(attempt) + 1 \/ StepsLeft' = 0 BY StepsLeftWillBe
  <1> QED BY <1>1, <1>2 DEF Nearer

LEMMA AttemptGoesOn ==
    ASSUME Inv, Inv',
           (\E declared : Response(declared)) \/ (\E n \in 1..MaxChunk : ReadBody(n)) \/ ReadChunk
    PROVE  Nearer
  <1>1. pc \in {"get", "body"} BY DEF Response, ReadBody, ReadChunk
  <1>2. attempt' = attempt BY DEF Response, Fail, ReadBody, ReadChunk, attempts
  <1>3. CASE pc' = "done" BY <1>1, <1>2, <1>3, AttemptEnds
  <1>4. CASE pc' # "done"
    <2>1. pc' = "body"
      BY <1>4 DEF Response, Fail, Finish, ReadBody, ReadChunk
    <2>2. /\ sent' \in Nat /\ gathered' \in Nat /\ 2 * sent' <= Body
          /\ Ahead(attempt) \in Nat /\ sent \in Nat /\ gathered \in Nat
      <3>1. TypeOK' /\ Buffer' BY DEF Inv
      <3>2. /\ sent' \in Nat /\ gathered' \in Nat /\ gathered' <= MaxChunk
            /\ chunks'.size \in Nat
        BY <3>1, Numbers DEF TypeOK
      <3>3. sent' <= MaxDownloadBytes + MaxChunk
        BY <2>1, <3>1, <3>2, Numbers DEF Buffer
      <3>4. 2 * sent' <= Body
        <4>1. \A x, y \in Nat : x <= y => 2 * x <= 2 * y OBVIOUS
        <4>2. MaxDownloadBytes + MaxChunk \in Nat BY Numbers
        <4>3. 2 * sent' <= 2 * (MaxDownloadBytes + MaxChunk) BY <3>2, <3>3, <4>1, <4>2
        <4> QED BY <4>3 DEF Body
      <3>5. Ahead(attempt) \in Nat /\ sent \in Nat /\ gathered \in Nat BY <1>1, UnderWay
      <3> QED BY <3>2, <3>4, <3>5
    <2>3. StepsLeft' = Ahead(attempt) + Body - 2 * sent' + 2 + (IF gathered' > 0 THEN 1 ELSE 0)
      BY <1>2, <2>1, StepsLeftWillBe
    <2>4. 0 <= StepsLeft' BY <2>2, <2>3, AheadFacts
    <2>5. CASE pc = "get"
      <3>1. StepsLeft = Ahead(attempt) + Body + 4 BY <2>5, StepsLeftIs
      <3> QED BY <2>2, <2>3, <2>4, <3>1, AheadFacts DEF Nearer
    <2>6. CASE pc = "body"
      <3>1. StepsLeft = Ahead(attempt) + Body - 2 * sent + 2 + (IF gathered > 0 THEN 1 ELSE 0)
        BY <2>6, StepsLeftIs
      <3>2. CASE ReadChunk
        <4>1. gathered > 0 /\ gathered' = 0 /\ sent' = sent BY <3>2 DEF ReadChunk
        <4> QED BY <2>2, <2>3, <2>4, <3>1, <4>1, AheadFacts DEF Nearer
      <3>3. ASSUME NEW n \in 1..MaxChunk, ReadBody(n) PROVE Nearer
        <4>1. sent' = sent + n /\ n \in Nat \ {0} BY <3>3, Numbers DEF ReadBody
        <4> QED BY <2>2, <2>3, <2>4, <3>1, <4>1, AheadFacts DEF Nearer
      <3> QED BY <2>6, <3>2, <3>3 DEF Response
    <2> QED BY <1>1, <2>5, <2>6
  <1> QED BY <1>3, <1>4

LEMMA OtherSteps ==
    ASSUME Inv, IdleRead \/ Wake \/ Unreadable \/ Stat \/ ReadFile \/ FileChanges
    PROVE  Nearer
  <1>1. TypeOK /\ Control BY DEF Inv
  <1>2. CASE Wake
    <2>1. pc = "sleep" /\ pc' = "get" /\ attempt' = attempt + 1
      BY <1>2 DEF Wake, Request
    <2>2. attempt \in Attempts /\ attempt < MaxRetries BY <1>1, <2>1 DEF TypeOK, Control
    <2>3. /\ StepsLeft = Ahead(attempt) + 1
          /\ StepsLeft' = Ahead(attempt + 1) + Body + 4
      BY <2>1, StepsLeftIs, StepsLeftWillBe
    <2> QED BY <2>2, <2>3, AheadFacts DEF Nearer
  <1>3. CASE Unreadable \/ Stat \/ ReadFile
    <2>1. \/ pc \in {"stat", "read"} /\ pc' = "done"
          \/ pc = "stat" /\ pc' = "read"
      BY <1>3 DEF Unreadable, Stat, ReadFile, Finish
    <2> QED BY <2>1, StepsLeftIs, StepsLeftWillBe DEF Nearer
  <1>4. CASE FileChanges
    <2>1. pc \in {"stat", "read"} /\ pc' = pc BY <1>4 DEF FileChanges
    <2> QED BY <1>4, <2>1, StepsLeftIs, StepsLeftWillBe DEF Nearer
  <1>5. CASE IdleRead
    <2>1. pc \in {"get", "body"} /\ UNCHANGED <<pc, attempt, sent, gathered>>
      BY <1>5 DEF IdleRead, attempts, data
    <2>2. StepsLeft' = StepsLeft
      <3>1. CASE pc = "get" BY <2>1, <3>1, StepsLeftIs, StepsLeftWillBe
      <3>2. CASE pc = "body" BY <2>1, <3>2, StepsLeftIs, StepsLeftWillBe
      <3> QED BY <2>1, <3>1, <3>2
    <2>3. StepsLeft \in Int /\ StepsLeft >= 0 BY <2>1, UnderWay
    <2> QED BY <1>5, <2>2, <2>3 DEF Nearer
  <1> QED BY <1>2, <1>3, <1>4, <1>5

(* Every step brings a fetch closer to its end, whatever the settings and  *)
(* the server, but for reads that bring no byte of a body (and another     *)
(* process rewriting a file): they alone can keep a fetch from ending.     *)
THEOREM FetcherOnlyIdleReadsAreUnbounded == Spec => OnlyIdleReadsAreUnbounded
  <1>1. ASSUME Inv, Inv', Next PROVE Nearer
    <2>1. CASE \/ TimedOut \/ ConnectionError \/ RetryableStatus \/ Stalled
               \/ RequestError \/ RefusingStatus \/ Broken \/ EndOfBody
      <3>1. pc \in {"get", "body"} /\ pc' \in {"sleep", "done"} /\ attempt' = attempt
        BY <2>1 DEF TimedOut, ConnectionError, RetryableStatus, Stalled, RequestError,
                    RefusingStatus, Broken, EndOfBody, Retry, Fail, Finish, attempts
      <3> QED BY <1>1, <3>1, AttemptEnds
    <2>2. CASE \/ \E declared \in 0..(MaxDownloadBytes + 1) \union {None} : Response(declared)
               \/ \E n \in 1..MaxChunk : ReadBody(n)
               \/ ReadChunk
      BY <1>1, <2>2, AttemptGoesOn
    <2>3. CASE IdleRead \/ Wake \/ Unreadable \/ Stat \/ ReadFile \/ FileChanges
      BY <1>1, <2>3, OtherSteps
    <2> QED BY <1>1, <2>1, <2>2, <2>3 DEF Next, Step
  <1>2. Inv /\ Inv' /\ [Next]_vars => [Nearer]_vars BY <1>1
  <1> QED BY <1>2, FetcherInvariant, PTL DEF Spec, OnlyIdleReadsAreUnbounded, Nearer
=============================================================================
