---------------------------- MODULE CommandLine ----------------------------
(***************************************************************************)
(* main.py: one invocation, from the command line to the exit code, with   *)
(* load_config (config.py) and the constructor of CatalogStore             *)
(* (storage.py).  A step is one check of the configuration, one call that  *)
(* can raise, or one provider of the crawl; an interrupt falls between any *)
(* two.  What a crawl does with a provider is module Crawler: here it ends *)
(* in a result or in an exception.                                         *)
(***************************************************************************)
EXTENDS Naturals, Sequences

CONSTANTS
    Ids,    \* provider ids, stripped
    Texts,  \* provider ids as written: an id, or an id with blanks around it
    Strip,  \* [Texts -> Ids]
    Files,  \* the configuration files there may be
    None    \* not a text, blank, missing; a flag that is not one; no exit yet

(* Written numbers, as far as the casts tell them apart; an absent one has *)
(* a default, which is a "whole" one.  "huge" is beyond every float.       *)
Written == {"whole", "fraction", "zero", "negative", "text", "nan", "infinite", "huge"}

(* _parse_settings: the settings in the order they are looked at. *)
Casts == <<"float", "int", "float", "int">>

Entry == [id : Texts \union {None}, manifest_url : BOOLEAN,
          enabled : BOOLEAN \union {None}]

File == [form : {"missing", "unreadable", "malformed", "mapping"},
         database_path : BOOLEAN,
         numbers : [DOMAIN Casts -> Written],
         providers : Seq(Entry)]  \* <<>>: absent, not a list, empty

ASSUME CommandLineAssumption ==
    /\ Strip \in [Texts -> Ids]
    /\ Files \subseteq File
    /\ None \notin Texts /\ None \notin BOOLEAN /\ None \notin Nat

VARIABLES
    command,    \* args.command; "other": refused by the parser
    file,       \* the configuration file
    pc,         \* the phase main() is in
    position,   \* how much of the phase's list is done
    seen_ids,   \* of _parse_providers
    providers,  \* the providers accepted so far
    conn,       \* the connection: "setup" until the constructor is through
    results,    \* CrawlReport.results
    code        \* the exit code, once it is decided

vars == <<command, file, pc, position, seen_ids, providers, conn, results, code>>

Commands == {"crawl", "list", "status"}
Opening == <<"mkdir", "connect", "configure", "schema">>
Phases == {"read", "numbers", "providers", "open", "run", "close", "exit"}
Outcomes == {"ok", "up-to-date", "failed"}
ProviderConfig == [provider_id : Ids, enabled : BOOLEAN]

TypeOK ==
    /\ command \in Commands \union {"other"}
    /\ file \in Files
    /\ pc \in Phases
    /\ position \in Nat
    /\ seen_ids \subseteq Texts
    /\ providers \in Seq(ProviderConfig)
    /\ conn \in {"none", "setup", "open", "closed"}
    /\ results \in Seq([provider_id : Ids, status : Outcomes])
    /\ code \in {None, 0, 1, 2, 130}

(* The parser exits by itself on a command it does not know. *)
Init ==
    /\ command \in Commands \union {"other"}
    /\ file \in Files
    /\ pc = IF command = "other" THEN "exit" ELSE "read"
    /\ code = IF command = "other" THEN 2 ELSE None
    /\ position = 0
    /\ seen_ids = {}
    /\ providers = <<>>
    /\ conn = "none"
    /\ results = <<>>

---------------------------------------------------------------------------
(* How a step goes on. *)

input == <<command, file>>
config == <<seen_ids, providers>>

Goto(phase) == pc' = phase /\ position' = 0 /\ UNCHANGED code
Advance == position' = position + 1 /\ UNCHANGED <<pc, code>>

(* Outside the try of main(): a return, or an exception that leaves it. *)
Exit(n) == pc' = "exit" /\ code' = n /\ UNCHANGED position

(* Inside: the finally clause comes first. *)
Leave(n) == pc' = "close" /\ code' = n /\ UNCHANGED position

ConfigError == Exit(2)
StorageError == Exit(2)
Uncaught == Exit(1)

---------------------------------------------------------------------------
(* load_config *)

(* "unreadable": read_text raises what load_config does not catch. *)
ReadFile ==
    /\ pc = "read"
    /\ \/ file.form \in {"missing", "malformed"} /\ ConfigError
       \/ file.form = "unreadable" /\ Uncaught
       \/ /\ file.form = "mapping"
          /\ IF file.database_path THEN Goto("numbers") ELSE ConfigError
    /\ UNCHANGED <<input, config, conn, results>>

(* _as_positive_number: int() drops the fraction and has no infinity;      *)
(* float() has both, and a NaN, which is not <= 0.                         *)
Accepted(cast) == IF cast = "int" THEN {"whole", "huge"}
                                  ELSE {"whole", "fraction", "nan", "infinite"}
Overflows(cast) == IF cast = "int" THEN {"infinite"} ELSE {"huge"}

CheckNumber ==
    /\ pc = "numbers" /\ position < Len(Casts)
    /\ LET cast == Casts[position + 1]
           raw == file.numbers[position + 1]
       IN  \/ raw \in Accepted(cast) /\ Advance
           \/ raw \in Overflows(cast) /\ Uncaught
           \/ raw \notin Accepted(cast) \union Overflows(cast) /\ ConfigError
    /\ UNCHANGED <<input, config, conn, results>>

NumbersDone ==
    /\ pc = "numbers" /\ position = Len(Casts)
    /\ IF file.providers = <<>> THEN ConfigError ELSE Goto("providers")
    /\ UNCHANGED <<input, config, conn, results>>

(* Mutant: no check. *)
IsDuplicateNever(id) == FALSE
(* The id as it is written, blanks included. *)
IsDuplicate(id) == id \in seen_ids

(* Mutant: what is not a flag is taken as it is. *)
IsFlagAnything(enabled) == TRUE
IsFlag(enabled) == enabled \in BOOLEAN

ParseProvider ==
    /\ pc = "providers" /\ position < Len(file.providers)
    /\ LET entry == file.providers[position + 1]
       IN  IF /\ entry.id # None /\ ~IsDuplicate(entry.id)
              /\ entry.manifest_url /\ IsFlag(entry.enabled)
           THEN /\ Advance
                /\ seen_ids' = seen_ids \union {entry.id}
                /\ providers' = Append(providers,
                       [provider_id |-> Strip[entry.id], enabled |-> entry.enabled])
           ELSE ConfigError /\ UNCHANGED config
    /\ UNCHANGED <<input, conn, results>>

ProvidersDone ==
    /\ pc = "providers" /\ position = Len(file.providers)
    /\ Goto("open")
    /\ UNCHANGED <<input, config, conn, results>>

---------------------------------------------------------------------------
(* CatalogStore(...) *)

Open ==
    /\ pc = "open" /\ position < Len(Opening)
    /\ conn' = IF Opening[position + 1] = "connect" THEN "setup" ELSE conn
    /\ Advance
    /\ UNCHANGED <<input, config, results>>

Opened ==
    /\ pc = "open" /\ position = Len(Opening)
    /\ conn' = "open"
    /\ Goto("run")
    /\ UNCHANGED <<input, config, results>>

(* Of the four, connect and the schema turn sqlite3.Error to StorageError. *)
OpenFails ==
    /\ pc = "open" /\ position < Len(Opening)
    /\ IF Opening[position + 1] \in {"connect", "schema"} THEN StorageError ELSE Uncaught
    /\ UNCHANGED <<input, config, conn, results>>

---------------------------------------------------------------------------
(* The command *)

(* list and status: they read and print, or an exception leaves them. *)
Query ==
    /\ pc = "run" /\ command \in {"list", "status"}
    /\ \E n \in {0, 1} : Leave(n)
    /\ UNCHANGED <<input, config, conn, results>>

Crawling == pc = "run" /\ command = "crawl" /\ position < Len(providers)
Current == providers[position + 1]

SkipDisabled ==
    /\ Crawling /\ ~Current.enabled
    /\ Advance
    /\ UNCHANGED <<input, config, conn, results>>

(* _crawl_provider returns a result, after a failure too. *)
Visit(status) ==
    /\ Crawling /\ Current.enabled
    /\ Advance
    /\ results' = Append(results, [provider_id |-> Current.provider_id, status |-> status])
    /\ UNCHANGED <<input, config, conn>>

(* An exception outside the CrawlerError hierarchy. *)
VisitRaises ==
    /\ Crawling /\ Current.enabled
    /\ Leave(1)
    /\ UNCHANGED <<input, config, conn, results>>

(* Mutant: the verdict on the last provider. *)
FailedLast == {k \in DOMAIN results : k = Len(results) /\ results[k].status = "failed"}
(* CrawlReport.failed *)
Failed == {k \in DOMAIN results : results[k].status = "failed"}

(* The report is printed, which may raise, before its verdict is returned. *)
Report ==
    /\ pc = "run" /\ command = "crawl" /\ position = Len(providers)
    /\ Leave(IF Failed = {} THEN 0 ELSE 1) \/ Leave(1)
    /\ UNCHANGED <<input, config, conn, results>>

(* finally: store.close() *)
Close ==
    /\ pc = "close"
    /\ conn' = "closed"
    /\ pc' = "exit"
    /\ UNCHANGED <<input, config, position, results, code>>

(* Mutant: interrupted, main() returns at once. *)
InterruptUnclosed ==
    /\ pc \in Phases \ {"exit"}
    /\ IF pc = "run" THEN Exit(1) ELSE Exit(130)
    /\ UNCHANGED <<input, config, conn, results>>

(* KeyboardInterrupt: main() catches it around the command only; anywhere  *)
(* else it ends the process, in store.close() before or after it closed.   *)
Interrupt ==
    /\ pc \in Phases \ {"exit"}
    /\ IF pc = "run" THEN Leave(1) ELSE Exit(130)
    /\ conn' \in IF pc = "close" THEN {conn, "closed"} ELSE {conn}
    /\ UNCHANGED <<input, config, results>>

Next ==
    \/ ReadFile \/ CheckNumber \/ NumbersDone \/ ParseProvider \/ ProvidersDone
    \/ Open \/ Opened \/ OpenFails
    \/ Query \/ SkipDisabled \/ VisitRaises \/ Report \/ Close \/ Interrupt
    \/ \E status \in Outcomes : Visit(status)

Spec == Init /\ [][Next]_vars

---------------------------------------------------------------------------
(* A configuration without a fault, wherever in the file it may be. *)
Sound ==
    LET entries == file.providers
    IN  /\ file.form = "mapping" /\ file.database_path
        /\ \A n \in DOMAIN Casts : file.numbers[n] \in Accepted(Casts[n])
        /\ entries # <<>>
        /\ \A i \in DOMAIN entries :
              /\ entries[i].id # None
              /\ entries[i].manifest_url
              /\ entries[i].enabled \in BOOLEAN
        /\ \A i, j \in DOMAIN entries : i # j => entries[i].id # entries[j].id

(* The whole file is checked before anything happens: a fault in the last  *)
(* entry leaves the database untouched and no provider asked.              *)
ConfigIsSettledFirst ==
    pc \in {"open", "run", "close"} \/ conn # "none" \/ results # <<>> => Sound

(* Exit code 0 of a crawl: each enabled entry of the file has a result,    *)
(* and no result is a failure.  Exit code 2: nothing was crawled.          *)
ExitTellsTheOutcome ==
    pc = "exit" =>
        /\ command = "crawl" /\ code = 0 =>
              /\ \A k \in DOMAIN results : results[k].status # "failed"
              /\ \A i \in DOMAIN file.providers : file.providers[i].enabled =>
                    \E k \in DOMAIN results :
                        results[k].provider_id = Strip[file.providers[i].id]
        /\ code = 2 => results = <<>>

(* Once the constructor is through, each way out closes the database: a    *)
(* result, an exception, an interrupt, but not an interrupt of the close.  *)
StoreIsClosed == pc = "exit" /\ conn = "open" => code = 130

(* tests/test_crawler.py: duplicate provider ids are rejected; a crawl     *)
(* visits no provider twice.                                               *)
NoProviderTwice ==
    \A j, k \in DOMAIN results :
        j # k => results[j].provider_id # results[k].provider_id
=============================================================================
