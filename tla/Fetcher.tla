------------------------------ MODULE Fetcher ------------------------------
(***************************************************************************)
(* crawler/fetcher.py: one call of Fetcher.fetch, against a server that    *)
(* may answer anything at any speed, or a local file that is being         *)
(* rewritten.                                                              *)
(*                                                                         *)
(* A step is one wait: a read of the socket, a pause between attempts, one *)
(* call of the file system.  The timeout is that of a read and not of a    *)
(* request: it ends a silence, and nothing ends a server that keeps on     *)
(* talking but the cap, which counts what iter_content has yielded.        *)
(***************************************************************************)
EXTENDS Naturals

CONSTANTS
    MaxRetries,        \* settings.max_retries
    MaxDownloadBytes,  \* settings.max_download_bytes
    MaxChunk,          \* the most bytes iter_content gathers for a chunk:
                       \* 64 KiB, or what they decode to
    MaxFile,           \* bound: how large the local file may grow
    None               \* no result, no usable Content-Length, no such file

Attempts == 1..MaxRetries

ASSUME SettingsAssumption ==
    /\ MaxRetries \in Nat \ {0} /\ MaxDownloadBytes \in Nat \ {0}
    /\ MaxChunk \in Nat \ {0}

(* What the loop tells apart; of a body, "stalled" is a read timeout or an *)
(* SSL error, "broken" a connection lost halfway or undecodable data.      *)
Transient == {"retryable_status", "timeout", "connection_error", "stalled"}
Permanent == {"refusing_status", "request_error", "broken", "too_large"}
Errors == Permanent \union {"gave_up", "unsupported", "unreadable"}

ASSUME FetchBoundsAssumption ==
    /\ MaxFile \in Nat
    /\ None \notin Nat /\ None \notin Errors \union {"bytes"}

VARIABLES
    scheme,    \* what urlparse finds the URL to be
    pc,        \* get, body, sleep of _fetch_http; stat, read of _read_path
    attempt,   \* the loop variable of _fetch_http
    sent,      \* body bytes the server has delivered in this attempt
    gathered,  \* those of them iter_content has not yielded yet
    chunks,    \* the buffer: its size and the attempts its bytes came in
    idle,      \* flips at each read that brings no byte of the body
    requests,  \* how many requests were made (MaxRetries + 1: or more)
    troubles,  \* the failures met so far
    file,      \* size of the local file, or None
    measured,  \* size of the local file as stat() reported it
    outcome    \* None, "bytes", or which FetchError was raised

attempts == <<attempt, requests, troubles>>
data == <<sent, gathered, chunks, measured>>
vars == <<scheme, pc, attempts, data, idle, file, outcome>>

Schemes == {"http", "file", "other"}

TypeOK ==
    /\ scheme \in Schemes
    /\ pc \in {"get", "body", "sleep", "stat", "read", "done"}
    /\ attempt \in Attempts
    /\ sent \in Nat
    /\ gathered \in 0..MaxChunk
    /\ chunks \in [size : Nat, from : SUBSET Attempts]
    /\ idle \in {0, 1}
    /\ requests \in 0..(MaxRetries + 1)
    /\ troubles \subseteq Transient \union Permanent
    /\ file \in 0..MaxFile \union {None} /\ measured \in 0..MaxFile
    /\ outcome \in Errors \union {"bytes", None}

Empty == [size |-> 0, from |-> {}]

(* fetch(): the scheme decides; one it does not know is an error at once. *)
Init ==
    /\ scheme \in Schemes
    /\ pc = IF scheme = "http" THEN "get" ELSE IF scheme = "file" THEN "stat" ELSE "done"
    /\ attempt = 1
    /\ sent = 0
    /\ gathered = 0
    /\ chunks = Empty
    /\ idle = 0
    /\ requests = IF scheme = "http" THEN 1 ELSE 0
    /\ troubles = {}
    /\ file \in 0..MaxFile \union {None}
    /\ scheme # "file" => file = None
    /\ measured = 0
    /\ outcome = IF scheme = "other" THEN "unsupported" ELSE None

---------------------------------------------------------------------------
(* How a step ends. *)

Finish(result) ==
    /\ pc' = "done"
    /\ outcome' = result

Meet(trouble) == troubles' = troubles \union {trouble}

(* raise FetchError from the loop: the attempt is over, the fetch with it. *)
Fail(trouble) ==
    /\ Finish(trouble)
    /\ Meet(trouble)
    /\ UNCHANGED <<scheme, attempt, requests, data, idle, file>>

(* Mutant: one attempt too many. *)
RetryOnceMore(trouble) ==
    /\ Meet(trouble)
    /\ IF attempt <= MaxRetries THEN pc' = "sleep" /\ UNCHANGED outcome
                                ELSE Finish("gave_up")
    /\ UNCHANGED <<scheme, attempt, requests, data, idle, file>>

(* _sleep_before_retry and on with the loop; after the last attempt there  *)
(* is no pause, and the loop is over.                                      *)
Retry(trouble) ==
    /\ Meet(trouble)
    /\ IF attempt < MaxRetries THEN pc' = "sleep" /\ UNCHANGED outcome
                               ELSE Finish("gave_up")
    /\ UNCHANGED <<scheme, attempt, requests, data, idle, file>>

---------------------------------------------------------------------------
(* _fetch_http *)

(* A read that brings nothing of the body.  Before the response: redirects *)
(* and their bodies, which requests reads whole, "100 Continue" replies,   *)
(* headers.  In the body: the lengths of chunks and the trailers of a      *)
(* chunked one, compressed data that decodes to nothing.  There may be any *)
(* number of them: neither requests nor the code under it counts them all. *)
IdleRead ==
    /\ pc \in {"get", "body"}
    /\ idle' = 1 - idle
    /\ UNCHANGED <<scheme, pc, attempts, data, file, outcome>>

TimedOut == pc = "get" /\ Retry("timeout")

ConnectionError == pc = "get" /\ Retry("connection_error")

(* Too many redirects, an invalid URL: the last except clause. *)
RequestError == pc = "get" /\ Fail("request_error")

RetryableStatus == pc = "get" /\ Retry("retryable_status")

(* Mutant: 404 is tried again like 503. *)
RefusingStatusRetried == pc = "get" /\ Retry("refusing_status")

(* Any other status from 400 on. *)
RefusingStatus == pc = "get" /\ Fail("refusing_status")

(* Mutant: one buffer for all attempts. *)
KeptBuffer == chunks
(* chunks = bytearray() *)
NewBuffer == Empty

(* Content-Length is absent or garbage (None), too large, or ignored. *)
Response(declared) ==
    /\ pc = "get"
    /\ IF declared # None /\ declared > MaxDownloadBytes
       THEN Fail("too_large")
       ELSE /\ pc' = "body"
            /\ chunks' = NewBuffer
            /\ UNCHANGED <<scheme, attempts, sent, gathered, measured, idle, file, outcome>>

(* A read of the socket inside iter_content: n bytes more for its chunk. *)
ReadBody(n) ==
    /\ pc = "body" /\ gathered + n <= MaxChunk
    /\ sent' = sent + n
    /\ gathered' = gathered + n
    /\ UNCHANGED <<scheme, pc, attempts, chunks, measured, idle, file, outcome>>

(* chunks.extend(chunk) *)
Extended == [size |-> chunks.size + gathered, from |-> chunks.from \union {attempt}]

(* Mutant: the cap is looked at when the body is complete. *)
ReadChunkUncapped ==
    /\ pc = "body" /\ gathered > 0
    /\ chunks' = Extended
    /\ gathered' = 0
    /\ UNCHANGED <<scheme, pc, attempts, sent, measured, idle, file, outcome>>

(* The loop of _read_capped: iter_content yields what it has gathered, be  *)
(* it a full chunk, one of the server's, or the last; then the cap.        *)
ReadChunk ==
    /\ pc = "body" /\ gathered > 0
    /\ chunks' = Extended
    /\ gathered' = 0
    /\ IF Extended.size > MaxDownloadBytes
       THEN Finish("too_large") /\ Meet("too_large")
       ELSE UNCHANGED <<pc, troubles, outcome>>
    /\ UNCHANGED <<scheme, attempt, requests, sent, measured, idle, file>>

(* The body ends, where the server meant it to or earlier; what had been   *)
(* gathered was yielded first.                                             *)
EndOfBody ==
    /\ pc = "body" /\ gathered = 0
    /\ Finish("bytes")
    /\ UNCHANGED <<scheme, attempts, data, idle, file>>

Stalled == pc = "body" /\ Retry("stalled")

(* Not a ConnectionError: the last except clause again. *)
Broken == pc = "body" /\ Fail("broken")

(* Another request to the same URL. *)
Request ==
    /\ pc' = "get"
    /\ requests' = IF requests > MaxRetries THEN requests ELSE requests + 1
    /\ sent' = 0
    /\ gathered' = 0
    /\ UNCHANGED <<scheme, chunks, measured, idle, troubles, file, outcome>>

(* Mutant: a loop that forgets to count the attempt. *)
WakeUncounted == pc = "sleep" /\ Request /\ UNCHANGED attempt

(* Back from the pause, with the next attempt. *)
Wake == pc = "sleep" /\ Request /\ attempt' = attempt + 1

---------------------------------------------------------------------------
(* _read_path *)

Unreadable ==
    /\ pc \in {"stat", "read"}
    /\ file = None
    /\ Finish("unreadable")
    /\ UNCHANGED <<scheme, attempts, data, idle, file>>

Stat ==
    /\ pc = "stat" /\ file # None
    /\ measured' = file
    /\ IF file > MaxDownloadBytes THEN Finish("too_large")
                                  ELSE pc' = "read" /\ UNCHANGED outcome
    /\ UNCHANGED <<scheme, attempts, sent, gathered, chunks, idle, file>>

(* read_bytes: whatever the file holds by now. *)
ReadFile ==
    /\ pc = "read" /\ file # None
    /\ chunks' = [size |-> file, from |-> {}]
    /\ Finish("bytes")
    /\ UNCHANGED <<scheme, attempts, sent, gathered, measured, idle, file>>

(* Another process writes, truncates, creates or deletes the file. *)
FileChanges ==
    /\ pc \in {"stat", "read"}
    /\ file' \in (0..MaxFile \union {None}) \ {file}
    /\ UNCHANGED <<scheme, pc, attempts, data, idle, outcome>>

Step ==
    \/ IdleRead \/ TimedOut \/ ConnectionError \/ RequestError
    \/ RetryableStatus \/ RefusingStatus
    \/ \E declared \in 0..(MaxDownloadBytes + 1) \union {None} : Response(declared)
    \/ \E n \in 1..MaxChunk : ReadBody(n)
    \/ ReadChunk \/ EndOfBody \/ Stalled \/ Broken \/ Wake
    \/ Unreadable \/ Stat \/ ReadFile

Next == Step \/ FileChanges

Spec == Init /\ [][Next]_vars

(* A read of the socket ends, if only by its timeout; so do a pause and a  *)
(* call of the file system.  Nothing says how the server answers, nor that *)
(* it ever ends its answer.                                                *)
FairSpec == Spec /\ WF_vars(Step)

---------------------------------------------------------------------------
(* The bytes returned are those of one response: all it delivered, and     *)
(* nothing of an attempt that was given up halfway.                        *)
BytesAreOneResponse ==
    outcome = "bytes" /\ scheme = "http" =>
        chunks.size = sent /\ chunks.from \subseteq {attempt}

(* However long a response claims or turns out to be, what is held of its  *)
(* body exceeds the cap by one chunk at most, and what is returned does    *)
(* not.  A local file exceeds it only if it grew after it was measured.    *)
DownloadIsCapped ==
    /\ scheme = "http" => chunks.size + gathered <= MaxDownloadBytes + MaxChunk
    /\ outcome = "bytes" =>
          \/ chunks.size <= MaxDownloadBytes
          \/ scheme = "file" /\ chunks.size > measured

(* A failure that would only repeat itself ends the fetch; one that may    *)
(* pass ends it only after MaxRetries requests.                            *)
RetriesFitTheFailure ==
    /\ \A trouble \in troubles \intersect Permanent : outcome = trouble
    /\ outcome = "gave_up" => requests = MaxRetries
    /\ requests <= MaxRetries

(* How many steps a fetch has before it at most, idle reads not counted. *)
StepsLeft ==
    LET body == 2 * (MaxDownloadBytes + MaxChunk)
        later == (MaxRetries - attempt) * (body + 4)
    IN  CASE pc = "get"   -> later + body + 4
          [] pc = "body"  -> later + body - 2 * sent + 2 + (IF gathered > 0 THEN 1 ELSE 0)
          [] pc = "sleep" -> later + 1
          [] pc = "stat"  -> 2
          [] pc = "read"  -> 1
          [] pc = "done"  -> 0

(* Every step leaves fewer to come, but for two that bring nothing: a read *)
(* without a byte of the body, and another process rewriting the file.     *)
(* Failures are counted by the attempts, the body by the cap.              *)
OnlyIdleReadsAreUnbounded ==
    [][0 <= StepsLeft' /\ (\/ StepsLeft' < StepsLeft
                           \/ StepsLeft' = StepsLeft /\ (IdleRead \/ FileChanges))]_vars

(* A fetch ends, or from some point on all there is of it is one response  *)
(* that never comes to its body, or to the next byte or the end of it.     *)
(* Neither silence nor failures nor a body without end can hold it.        *)
EndsUnlessHeld == <>(pc = "done") \/ <>[][IdleRead]_vars
=============================================================================
